---- MODULE Spec2Model ----
\* Model of the knowledge-graph data layer of graph-parser:
\* the SQLite adapter (src/server/src/db/adapters/sqlite.py) and the REST
\* handlers in front of it (src/server/src/routes/graphs.py).
\*
\* Text values whose characters matter (slugs, the JSON text of parent_slugs)
\* are sequences of one-character strings; every other string is opaque.
EXTENDS Integers, Sequences, FiniteSets, TLC

\* ---------------------------------------------------------------------------
\* Bounds
\* ---------------------------------------------------------------------------
\* number of graphs createGraph may add to the default graph
MaxGraphs == 2
\* highest courseId create_course may hand out
MaxCourseId == 2
\* rows of kg_edges one graph may hold
MaxEdges == 2
\* items in one batch request
MaxBatchItems == 2

\* ---------------------------------------------------------------------------
\* Values
\* ---------------------------------------------------------------------------
\* Python None / SQL NULL
Null == "null"
\* the code point U+00E9, a character outside ASCII
EAcute == "U+00E9"
SlugA == <<"a">>
SlugB == <<"b">>
SlugE == <<EAcute>>
Slugs == {SlugA, SlugB, SlugE}
SlugC == <<"c">>

\* the slugs of the model as the index on (graph_id, url_slug) ranks them:
\* BINARY collation of the UTF-8 text
SlugsInIndexOrder == <<SlugA, SlugB, SlugC, SlugE>>

SlugRank(s) == CHOOSE i \in 1..Len(SlugsInIndexOrder) : SlugsInIndexOrder[i] = s

\* ---------------------------------------------------------------------------
\* Text conversions used by the adapter
\* ---------------------------------------------------------------------------
RECURSIVE Concat(_)
\* the concatenation of a sequence of sequences
Concat(ss) == IF ss = <<>> THEN <<>> ELSE Head(ss) \o Concat(Tail(ss))

\* json.dumps of one character (ensure_ascii is left at its default):
\* quote and backslash get a backslash, a non-ASCII code point becomes \uXXXX
JsonEscapeChar(c) ==
    CASE c = "\"" -> <<"\\", "\"">>
      [] c = "\\" -> <<"\\", "\\">>
      [] c = EAcute -> <<"\\", "u", "0", "0", "e", "9">>
      [] OTHER -> <<c>>

\* json.dumps of a str
JsonDumpsStr(s) ==
    <<"\"">> \o Concat([i \in 1..Len(s) |-> JsonEscapeChar(s[i])]) \o <<"\"">>

RECURSIVE JsonJoin(_)
\* the items of a JSON array, separated by ", "
JsonJoin(l) ==
    IF l = <<>> THEN <<>>
    ELSE IF Len(l) = 1 THEN JsonDumpsStr(l[1])
    ELSE JsonDumpsStr(l[1]) \o <<",", " ">> \o JsonJoin(Tail(l))

\* json.dumps of a list of str
JsonDumps(l) == <<"[">> \o JsonJoin(l) \o <<"]">>

\* the character a \uXXXX escape stands for
JsonUnescapeHex(h) == IF h = <<"0", "0", "e", "9">> THEN EAcute ELSE "U+????"

RECURSIVE JsonScan(_, _, _, _, _)
\* json.loads of the text of a list of str, scanning from position i
JsonScan(t, i, inStr, cur, acc) ==
    IF i > Len(t) THEN acc
    ELSE IF ~inStr THEN
        IF t[i] = "\"" THEN JsonScan(t, i + 1, TRUE, <<>>, acc)
        ELSE JsonScan(t, i + 1, FALSE, cur, acc)
    ELSE IF t[i] = "\"" THEN JsonScan(t, i + 1, FALSE, <<>>, Append(acc, cur))
    ELSE IF t[i] = "\\" THEN
        IF t[i + 1] = "u"
        THEN JsonScan(t, i + 6, TRUE,
                      Append(cur, JsonUnescapeHex(SubSeq(t, i + 2, i + 5))), acc)
        ELSE JsonScan(t, i + 2, TRUE, Append(cur, t[i + 1]), acc)
    ELSE JsonScan(t, i + 1, TRUE, Append(cur, t[i]), acc)

\* json.loads(row["parent_slugs"]) if row["parent_slugs"] else []
JsonLoads(t) == IF t = <<>> THEN <<>> ELSE JsonScan(t, 1, FALSE, <<>>, <<>>)

\* SQLite LIKE folds the case of ASCII letters
LikeFold(c) ==
    CASE c = "A" -> "a"
      [] c = "B" -> "b"
      [] OTHER -> c

RECURSIVE LikeMatch(_, _)
\* SQLite "text LIKE pat": % matches any run of characters, _ any one
LikeMatch(text, pat) ==
    IF pat = <<>> THEN text = <<>>
    ELSE IF Head(pat) = "%"
         THEN \/ LikeMatch(text, Tail(pat))
              \/ text # <<>> /\ LikeMatch(Tail(text), pat)
    ELSE /\ text # <<>>
         /\ Head(pat) = "_" \/ LikeFold(Head(pat)) = LikeFold(Head(text))
         /\ LikeMatch(Tail(text), Tail(pat))

\* the pattern delete_topic builds: f'%"{url_slug}"%'
LikePattern(url_slug) == <<"%", "\"">> \o url_slug \o <<"\"", "%">>

\* x in l, for a Python list
InList(x, l) == \E i \in 1..Len(l) : l[i] = x

\* l.remove(x): drops the first occurrence of x
ListRemove(l, x) ==
    IF ~InList(x, l) THEN l
    ELSE LET k == CHOOSE i \in 1..Len(l) :
                      l[i] = x /\ \A j \in 1..(i - 1) : l[j] # x
         IN SubSeq(l, 1, k - 1) \o SubSeq(l, k + 1, Len(l))

\* ---------------------------------------------------------------------------
\* The database: the four tables of _create_schema
\* ---------------------------------------------------------------------------
\* ids a request can name: the default graph and the ids create_graph draws
GraphIds == 0..MaxGraphs
\* the id _init_default_graph gives the default graph
DefaultGraphId == 0
\* a NULL source_graph_id, an absent copyFromGraphId
NoGraphId == -1

\* a NULL courseId in a TopicUpdate
NoCourseId == -1

\* Optional[row]: None is the empty sequence, a row r is <<r>>
None == <<>>
Some(r) == <<r>>

\* Python truthiness of an Optional[str]
Truthy(v) == v # Null /\ v # ""

\* str.strip() on the names the requests carry
Strip(n) ==
    CASE n = " " -> ""
      [] n = "Alg " -> "Alg"
      [] OTHER -> n

\* a database with no rows
EmptyDb ==
    [graphs  |-> [g \in GraphIds |-> None],
     courses |-> [g \in GraphIds |-> {}],
     topics  |-> [g \in GraphIds |-> <<>>],
     edges   |-> [g \in GraphIds |-> <<>>]]

\* what an adapter call leaves behind: the database, and whether it raised
Done(d) == [db |-> d, raised |-> FALSE]
Raise(d) == [db |-> d, raised |-> TRUE]

get_graph(d, graph_id) == d.graphs[graph_id]

get_course(d, graph_id, course_id) ==
    IF \E c \in d.courses[graph_id] : c.course_id = course_id
    THEN Some(CHOOSE c \in d.courses[graph_id] : c.course_id = course_id)
    ELSE None

get_topic(d, graph_id, url_slug) ==
    LET rows == d.topics[graph_id]
    IN IF \E i \in 1..Len(rows) : rows[i].url_slug = url_slug
       THEN Some(rows[CHOOSE i \in 1..Len(rows) : rows[i].url_slug = url_slug])
       ELSE None

get_edge(d, graph_id, parent_slug, child_slug) ==
    LET e == [parent_slug |-> parent_slug, child_slug |-> child_slug]
    IN IF InList(e, d.edges[graph_id]) THEN Some(e) ELSE None

\* Topic.parentSlugs as _row_to_topic reads it from the row
parentSlugs(row) == JsonLoads(row.parent_slugs)

\* ---- graphs ----
\* _copy_graph_data without its third INSERT ... SELECT: the edges stay behind
_copy_graph_data_no_edges(d, source_id, target_id) ==
    [d EXCEPT !.courses[target_id] = @ \cup d.courses[source_id],
              !.topics[target_id] = @ \o d.topics[source_id]]

\* the three INSERT ... SELECT statements; the rows keep their rowid order
_copy_graph_data(d, source_id, target_id) ==
    [d EXCEPT !.courses[target_id] = @ \cup d.courses[source_id],
              !.topics[target_id] = @ \o d.topics[source_id],
              !.edges[target_id] = @ \o d.edges[source_id]]

\* create_graph taking is_default and is_readonly from the source graph
create_graph_inheriting(d, graph_id, name, description, copy_from_graph_id) ==
    IF copy_from_graph_id # NoGraphId /\ d.graphs[copy_from_graph_id] = None
    THEN Raise(d)
    ELSE IF copy_from_graph_id = NoGraphId
    THEN Done([d EXCEPT !.graphs[graph_id] =
                 Some([name |-> name, description |-> description,
                       is_default |-> 0, is_readonly |-> 0,
                       source_graph_id |-> copy_from_graph_id])])
    ELSE Done(_copy_graph_data(
                [d EXCEPT !.graphs[graph_id] =
                    Some([d.graphs[copy_from_graph_id][1] EXCEPT
                            !.name = name, !.description = description,
                            !.source_graph_id = copy_from_graph_id])],
                copy_from_graph_id, graph_id))

\* source_graph_id references knowledge_graphs(id) and foreign keys are on
create_graph(d, graph_id, name, description, copy_from_graph_id) ==
    IF copy_from_graph_id # NoGraphId /\ d.graphs[copy_from_graph_id] = None
    THEN Raise(d)
    ELSE LET d1 == [d EXCEPT !.graphs[graph_id] =
                        Some([name |-> name, description |-> description,
                              is_default |-> 0, is_readonly |-> 0,
                              source_graph_id |-> copy_from_graph_id])]
         IN IF copy_from_graph_id # NoGraphId
            THEN Done(_copy_graph_data(d1, copy_from_graph_id, graph_id))
            ELSE Done(d1)

update_graph(d, graph_id, name, description) ==
    Done([d EXCEPT !.graphs[graph_id] =
            IF @ = None THEN @
            ELSE Some([@[1] EXCEPT
                    !.name = IF name # Null THEN name ELSE @,
                    !.description = IF description # Null THEN description ELSE @])])

\* knowledge_graphs.source_graph_id references knowledge_graphs(id) with no
\* ON DELETE action and foreign keys are on: a referenced row cannot go;
\* the rows of the other tables go with their graph (ON DELETE CASCADE)
delete_graph(d, graph_id) ==
    IF \E h \in GraphIds :
           d.graphs[h] # None /\ d.graphs[h][1].source_graph_id = graph_id
    THEN Raise(d)
    ELSE Done([d EXCEPT !.graphs[graph_id] = None,
                        !.courses[graph_id] = {},
                        !.topics[graph_id] = <<>>,
                        !.edges[graph_id] = <<>>])

\* ---- courses ----
\* the SELECT of create_course without its WHERE graph_id = ?
NextCourseId_all_graphs(d, graph_id) ==
    LET ids == UNION {{c.course_id : c \in d.courses[h]} : h \in GraphIds}
    IN IF ids = {} THEN 1 ELSE (CHOOSE m \in ids : \A k \in ids : k <= m) + 1

\* SELECT COALESCE(MAX(course_id), 0) + 1
NextCourseId(d, graph_id) ==
    LET ids == {c.course_id : c \in d.courses[graph_id]}
    IN IF ids = {} THEN 1 ELSE (CHOOSE m \in ids : \A k \in ids : k <= m) + 1

create_course(d, graph_id, name, color) ==
    Done([d EXCEPT !.courses[graph_id] = @ \cup
            {[course_id |-> NextCourseId(d, graph_id),
              name |-> Strip(name), color |-> color]}])

update_course(d, graph_id, course_id, name, color) ==
    Done([d EXCEPT !.courses[graph_id] =
            {IF c.course_id = course_id
             THEN [c EXCEPT !.name = IF name # Null THEN Strip(name) ELSE @,
                            !.color = IF color # Null THEN color ELSE @]
             ELSE c : c \in @}])

\* delete_course taking the topics of the course with it
delete_course_cascading(d, graph_id, course_id) ==
    LET Other(row) == row.course_id # course_id
    IN Done([d EXCEPT !.courses[graph_id] = {c \in @ : c.course_id # course_id},
                      !.topics[graph_id] = SelectSeq(@, Other)])

delete_course(d, graph_id, course_id) ==
    Done([d EXCEPT !.courses[graph_id] = {c \in @ : c.course_id # course_id}])

\* ---- topics ----
\* an IntegrityError when UNIQUE(graph_id, url_slug) is hit
create_topic(d, graph_id, url_slug, display_name, course_id, content_html, content_text) ==
    LET has_content == IF Truthy(content_html) \/ Truthy(content_text) THEN 1 ELSE 0
    IN IF get_topic(d, graph_id, url_slug) # None
       THEN Raise(d)
       ELSE Done([d EXCEPT !.topics[graph_id] = Append(@,
                [url_slug |-> url_slug, display_name |-> display_name,
                 course_id |-> course_id, parent_slugs |-> <<"[", "]">>,
                 content_html |-> content_html, content_text |-> content_text,
                 has_content |-> has_content])])

\* update_topic computing has_content from the fields of the request alone
update_topic_request_content(d, graph_id, url_slug, display_name, course_id, content_html, content_text) ==
    LET current == get_topic(d, graph_id, url_slug)
    IN IF current = None /\ (content_html = Null \/ content_text = Null)
       THEN Raise(d)
       ELSE Done([d EXCEPT !.topics[graph_id] =
                [i \in 1..Len(@) |->
                   IF @[i].url_slug # url_slug THEN @[i]
                   ELSE [@[i] EXCEPT
                           !.display_name = IF display_name # Null THEN display_name ELSE @,
                           !.course_id = IF course_id # NoCourseId THEN course_id ELSE @,
                           !.content_html = IF content_html # Null THEN content_html ELSE @,
                           !.content_text = IF content_text # Null THEN content_text ELSE @,
                           !.has_content =
                               IF Truthy(content_html) \/ Truthy(content_text)
                               THEN 1 ELSE 0]]])

\* course_id = NoCourseId stands for a request without courseId.
\* current.content_html is read only when the request has no contentHtml,
\* and raises AttributeError when there is no current topic
update_topic(d, graph_id, url_slug, display_name, course_id, content_html, content_text) ==
    LET current == get_topic(d, graph_id, url_slug)
    IN IF current = None /\ (content_html = Null \/ content_text = Null)
       THEN Raise(d)
       ELSE Done([d EXCEPT !.topics[graph_id] =
                [i \in 1..Len(@) |->
                   IF @[i].url_slug # url_slug THEN @[i]
                   ELSE LET html == IF content_html # Null THEN content_html
                                    ELSE current[1].content_html
                            text == IF content_text # Null THEN content_text
                                    ELSE current[1].content_text
                        IN [@[i] EXCEPT
                              !.display_name =
                                  IF display_name # Null THEN display_name ELSE @,
                              !.course_id = IF course_id # NoCourseId THEN course_id ELSE @,
                              !.content_html = html,
                              !.content_text = text,
                              !.has_content =
                                  IF Truthy(html) \/ Truthy(text) THEN 1 ELSE 0]]])

\* delete_topic with WHERE clauses that leave graph_id out
delete_topic_any_graph(d, graph_id, url_slug) ==
    LET TouchesNot(e) == e.parent_slug # url_slug /\ e.child_slug # url_slug
        Other(row) == row.url_slug # url_slug
    IN Done([d EXCEPT !.edges = [h \in GraphIds |-> SelectSeq(d.edges[h], TouchesNot)],
                      !.topics = [h \in GraphIds |-> SelectSeq(d.topics[h], Other)]])

delete_topic(d, graph_id, url_slug) ==
    LET TouchesNot(e) == e.parent_slug # url_slug /\ e.child_slug # url_slug
        Strip1(row) ==
            IF /\ LikeMatch(row.parent_slugs, LikePattern(url_slug))
               /\ InList(url_slug, JsonLoads(row.parent_slugs))
            THEN [row EXCEPT !.parent_slugs =
                     JsonDumps(ListRemove(JsonLoads(row.parent_slugs), url_slug))]
            ELSE row
        Other(row) == row.url_slug # url_slug
        stripped == [i \in 1..Len(d.topics[graph_id]) |-> Strip1(d.topics[graph_id][i])]
    IN Done([d EXCEPT !.edges[graph_id] = SelectSeq(@, TouchesNot),
                      !.topics[graph_id] = SelectSeq(stripped, Other)])

\* ---- edges ----
\* the rows of kg_topics with the parent_slugs of topic url_slug set to l
SetParentSlugs(rows, url_slug, l) ==
    [i \in 1..Len(rows) |->
        IF rows[i].url_slug = url_slug
        THEN [rows[i] EXCEPT !.parent_slugs = JsonDumps(l)]
        ELSE rows[i]]

\* create_edge putting the new parent at the head of parent_slugs
create_edge_prepending(d, graph_id, parent_slug, child_slug) ==
    IF get_edge(d, graph_id, parent_slug, child_slug) # None
    THEN Raise(d)
    ELSE LET d1 == [d EXCEPT !.edges[graph_id] = Append(@,
                        [parent_slug |-> parent_slug, child_slug |-> child_slug])]
             row == get_topic(d1, graph_id, child_slug)
         IN IF row # None /\ ~InList(parent_slug, JsonLoads(row[1].parent_slugs))
            THEN Done([d1 EXCEPT !.topics[graph_id] =
                        SetParentSlugs(@, child_slug,
                            <<parent_slug>> \o JsonLoads(row[1].parent_slugs))])
            ELSE Done(d1)

\* an IntegrityError when UNIQUE(graph_id, parent_slug, child_slug) is hit
create_edge(d, graph_id, parent_slug, child_slug) ==
    IF get_edge(d, graph_id, parent_slug, child_slug) # None
    THEN Raise(d)
    ELSE LET d1 == [d EXCEPT !.edges[graph_id] = Append(@,
                        [parent_slug |-> parent_slug, child_slug |-> child_slug])]
             row == get_topic(d1, graph_id, child_slug)
         IN IF row # None /\ ~InList(parent_slug, JsonLoads(row[1].parent_slugs))
            THEN Done([d1 EXCEPT !.topics[graph_id] =
                        SetParentSlugs(@, child_slug,
                            Append(JsonLoads(row[1].parent_slugs), parent_slug))])
            ELSE Done(d1)

\* delete_edge without its UPDATE of the child topic: only the edge row goes
delete_edge_keeping_parent_slugs(d, graph_id, parent_slug, child_slug) ==
    LET Other(e) == ~(e.parent_slug = parent_slug /\ e.child_slug = child_slug)
    IN Done([d EXCEPT !.edges[graph_id] = SelectSeq(@, Other)])

delete_edge(d, graph_id, parent_slug, child_slug) ==
    LET Other(e) == ~(e.parent_slug = parent_slug /\ e.child_slug = child_slug)
        d1 == [d EXCEPT !.edges[graph_id] = SelectSeq(@, Other)]
        row == get_topic(d1, graph_id, child_slug)
    IN IF row # None /\ InList(parent_slug, JsonLoads(row[1].parent_slugs))
       THEN Done([d1 EXCEPT !.topics[graph_id] =
                   SetParentSlugs(@, child_slug,
                       ListRemove(JsonLoads(row[1].parent_slugs), parent_slug))])
       ELSE Done(d1)

\* ---- reads ----
\* SELECT * FROM kg_topics WHERE graph_id = ? AND url_slug IN (...) has no
\* ORDER BY: SQLite answers it by probing the index on (graph_id, url_slug)
\* and returns the rows in index order, whatever the order of the IN list
get_topic_prerequisites(d, graph_id, url_slug) ==
    LET topic == get_topic(d, graph_id, url_slug)
        Wanted(row) == InList(row.url_slug, parentSlugs(topic[1]))
        rows == SelectSeq(d.topics[graph_id], Wanted)
        Before(i) == {j \in 1..Len(rows) :
                        SlugRank(rows[j].url_slug) < SlugRank(rows[i].url_slug)}
    IN IF topic = None THEN <<>>
       ELSE IF parentSlugs(topic[1]) = <<>> THEN <<>>
       ELSE [k \in 1..Len(rows) |->
                rows[CHOOSE i \in 1..Len(rows) : Cardinality(Before(i)) = k - 1]]

get_topic_dependents(d, graph_id, url_slug) ==
    LET Dependent(row) ==
            InList([parent_slug |-> url_slug, child_slug |-> row.url_slug],
                   d.edges[graph_id])
    IN SelectSeq(d.topics[graph_id], Dependent)

\* ---- batch ----
\* batch_update with its create blocks ahead of its delete blocks
GroupOrder_creates_first ==
    <<"courses.create", "topics.create", "edges.create",
      "edges.delete", "topics.delete", "courses.delete",
      "courses.update", "topics.update">>

\* the eight groups of a batch request, as batch_update walks them
GroupOrder ==
    <<"edges.delete", "topics.delete", "courses.delete",
      "courses.create", "topics.create", "edges.create",
      "courses.update", "topics.update">>

Groups == {GroupOrder[i] : i \in 1..Len(GroupOrder)}

\* one adapter call of batch_update, for one item it of group it.grp
BatchCall(d, graph_id, it) ==
    CASE it.grp = "edges.delete" ->
            delete_edge(d, graph_id, it.parent_slug, it.child_slug)
      [] it.grp = "topics.delete" -> delete_topic(d, graph_id, it.url_slug)
      [] it.grp = "courses.delete" -> delete_course(d, graph_id, it.course_id)
      [] it.grp = "courses.create" -> create_course(d, graph_id, it.name, it.color)
      [] it.grp = "topics.create" ->
            create_topic(d, graph_id, it.url_slug, it.display_name, it.course_id,
                         it.content_html, it.content_text)
      [] it.grp = "edges.create" ->
            create_edge(d, graph_id, it.parent_slug, it.child_slug)
      [] it.grp = "courses.update" ->
            update_course(d, graph_id, it.course_id, it.name, it.color)
      [] it.grp = "topics.update" ->
            update_topic(d, graph_id, it.url_slug, it.display_name, it.course_id,
                         it.content_html, it.content_text)

\* the items of a request in the order batch_update reaches them;
\* ops maps each group to its list (a missing list is the empty one)
BatchPlan(ops) ==
    Concat([i \in 1..Len(GroupOrder) |-> ops[GroupOrder[i]]])

RECURSIVE BatchRun_aborting(_, _, _, _)
\* batch_update without the try/except: the first item that raises ends the run
BatchRun_aborting(d, graph_id, plan, log) ==
    IF plan = <<>> THEN [db |-> d, log |-> log]
    ELSE LET r == BatchCall(d, graph_id, Head(plan))
         IN IF r.raised
            THEN [db |-> d, log |-> Append(log, [item |-> Head(plan), ok |-> FALSE])]
            ELSE BatchRun_aborting(r.db, graph_id, Tail(plan),
                                   Append(log, [item |-> Head(plan), ok |-> TRUE]))

RECURSIVE BatchRun(_, _, _, _)
\* the try/except around every call: an item that raises is skipped.
\* log lists the items in the order they were tried, with their outcome
BatchRun(d, graph_id, plan, log) ==
    IF plan = <<>> THEN [db |-> d, log |-> log]
    ELSE LET r == BatchCall(d, graph_id, Head(plan))
         IN BatchRun(r.db, graph_id, Tail(plan),
                     Append(log, [item |-> Head(plan), ok |-> ~r.raised]))

batch_update(d, graph_id, ops) == BatchRun(d, graph_id, BatchPlan(ops), <<>>)

\* the counter of BatchResult for one group
BatchCount(log, grp) ==
    Cardinality({i \in 1..Len(log) : log[i].item.grp = grp /\ log[i].ok})

\* ---------------------------------------------------------------------------
\* Bootstrap
\* ---------------------------------------------------------------------------
RECURSIVE JoinComma(_)
\* GROUP_CONCAT(parent_slug): the values joined by ","
JoinComma(l) ==
    IF l = <<>> THEN <<>>
    ELSE IF Len(l) = 1 THEN l[1]
    ELSE l[1] \o <<",">> \o JoinComma(Tail(l))

RECURSIVE SplitScan(_, _, _, _)
SplitScan(t, i, cur, acc) ==
    IF i > Len(t) THEN Append(acc, cur)
    ELSE IF t[i] = "," THEN SplitScan(t, i + 1, <<>>, Append(acc, cur))
    ELSE SplitScan(t, i + 1, Append(cur, t[i]), acc)

\* str.split(",")
SplitComma(t) == SplitScan(t, 1, <<>>, <<>>)

\* the scraper database is absent
NoSeed == [present |-> FALSE, courses |-> <<>>, topics |-> <<>>, edges |-> <<>>]

\* a scraper database: one course, topics e-acute and b, the edge e-acute -> b
SeedEB ==
    [present |-> TRUE,
     courses |-> <<[course_id |-> 1, name |-> "Alg", color |-> "#111"]>>,
     topics |-> <<[url_slug |-> SlugE, display_name |-> "E", course_id |-> 1,
                   content_html |-> "<p>", content_text |-> Null],
                  [url_slug |-> SlugB, display_name |-> "B", course_id |-> 1,
                   content_html |-> Null, content_text |-> Null]>>,
     edges |-> <<[parent_slug |-> SlugE, child_slug |-> SlugB]>>]

Seeds == {NoSeed, SeedEB}

DefaultGraphRow(description) ==
    [name |-> "Default Graph", description |-> description,
     is_default |-> 1, is_readonly |-> 1, source_graph_id |-> NoGraphId]

\* _init_default_graph without its look for a graph with is_default = 1
_init_default_graph_unguarded(d, seed) ==
    IF ~seed.present
    THEN [d EXCEPT !.graphs[DefaultGraphId] =
                Some(DefaultGraphRow("Default knowledge graph"))]
    ELSE LET g == DefaultGraphId
             ParentsOf(child) ==
                 LET Into(e) == e.child_slug = child
                     es == SelectSeq(seed.edges, Into)
                 IN SplitComma(JoinComma([i \in 1..Len(es) |-> es[i].parent_slug]))
             HasParents(child) == \E i \in 1..Len(seed.edges) :
                                      seed.edges[i].child_slug = child
         IN [d EXCEPT
               !.graphs[g] = Some(DefaultGraphRow("Imported from scraper database")),
               !.courses[g] = @ \cup {seed.courses[i] : i \in 1..Len(seed.courses)},
               !.topics[g] = @ \o [i \in 1..Len(seed.topics) |->
                   LET t == seed.topics[i]
                   IN [url_slug |-> t.url_slug, display_name |-> t.display_name,
                       course_id |-> t.course_id,
                       parent_slugs |-> IF HasParents(t.url_slug)
                                        THEN JsonDumps(ParentsOf(t.url_slug))
                                        ELSE <<"[", "]">>,
                       content_html |-> t.content_html,
                       content_text |-> t.content_text,
                       has_content |-> IF Truthy(t.content_html) \/ Truthy(t.content_text)
                                       THEN 1 ELSE 0]],
               !.edges[g] = @ \o seed.edges]

_init_default_graph(d, seed) ==
    IF \E g \in GraphIds : d.graphs[g] # None /\ d.graphs[g][1].is_default = 1
    THEN d
    ELSE IF ~seed.present
    THEN [d EXCEPT !.graphs[DefaultGraphId] =
                Some(DefaultGraphRow("Default knowledge graph"))]
    ELSE LET g == DefaultGraphId
             ParentsOf(child) ==
                 LET Into(e) == e.child_slug = child
                     es == SelectSeq(seed.edges, Into)
                 IN SplitComma(JoinComma([i \in 1..Len(es) |-> es[i].parent_slug]))
             HasParents(child) == \E i \in 1..Len(seed.edges) :
                                      seed.edges[i].child_slug = child
         IN [d EXCEPT
               !.graphs[g] = Some(DefaultGraphRow("Imported from scraper database")),
               !.courses[g] = {seed.courses[i] : i \in 1..Len(seed.courses)},
               !.topics[g] = [i \in 1..Len(seed.topics) |->
                   LET t == seed.topics[i]
                   IN [url_slug |-> t.url_slug, display_name |-> t.display_name,
                       course_id |-> t.course_id,
                       parent_slugs |-> IF HasParents(t.url_slug)
                                        THEN JsonDumps(ParentsOf(t.url_slug))
                                        ELSE <<"[", "]">>,
                       content_html |-> t.content_html,
                       content_text |-> t.content_text,
                       has_content |-> IF Truthy(t.content_html) \/ Truthy(t.content_text)
                                       THEN 1 ELSE 0]],
               !.edges[g] = seed.edges]

\* ---------------------------------------------------------------------------
\* State
\* ---------------------------------------------------------------------------
\* db:     the tables behind SQLiteAdapter.db
\* issued: how many graph ids uuid4 has handed out to create_graph
\* resp:   the last request and its answer
VARIABLES db, issued, resp, calls

vars == <<db, issued, resp, calls>>

\* calls: the adapter calls that are suspended at one of their awaits, each
\* with its position and its local variables; a handler that is modelled as
\* one step leaves it alone
NoCalls == {}


\* resp: the handler op, the graph it was addressed to, the code of the answer
\* ("OK" or the error code), the arguments of an accepted request and the
\* payload of the answer where a claim reads it
Answer(op, g, code, arg, data) ==
    [op |-> op, g |-> g, code |-> code, arg |-> arg, data |-> data]

Init ==
    /\ \E seed \in Seeds : db = _init_default_graph(EmptyDb, seed)
    /\ issued = 0
    /\ resp = Answer("initialize", DefaultGraphId, "OK", <<>>, <<>>)
    /\ calls = NoCalls

\* Depends(get_graph_or_404)
get_graph_or_404(d, graph_id) ==
    IF get_graph(d, graph_id) = None THEN "GRAPH_NOT_FOUND" ELSE "OK"

\* require_writable without its is_readonly test
require_writable_unchecked(d, graph_id) == get_graph_or_404(d, graph_id)

\* Depends(require_writable)
require_writable(d, graph_id) ==
    IF get_graph_or_404(d, graph_id) # "OK" THEN get_graph_or_404(d, graph_id)
    ELSE IF get_graph(d, graph_id)[1].is_readonly = 1 THEN "READONLY_GRAPH"
    ELSE "OK"

\* not s or not s.strip(), for an opaque name
Blank(n) == n = "" \/ Strip(n) = ""

\* not s or not s.strip(), for a slug
BlankSlug(s) == \A i \in 1..Len(s) : s[i] = " "

\* ---------------------------------------------------------------------------
\* Request handlers (routes/graphs.py), as functions of the database:
\* the database they leave, the code of the answer and its payload
\* ---------------------------------------------------------------------------
\* raise HTTPException(detail={"code": code, ...}) before any write
Rejected(d, code) == [db |-> d, code |-> code, data |-> <<>>]

\* return success_response(data) after the adapter call r;
\* an exception the handler does not catch is answered with status 500
Accepted(d, r, data) ==
    IF r.raised THEN [db |-> d, code |-> "INTERNAL_ERROR", data |-> <<>>]
    ELSE [db |-> r.db, code |-> "OK", data |-> data]

\* POST /graphs; graph_id is the uuid4 create_graph draws
CreateGraph(d, graph_id, name, description, copy_from_graph_id) ==
    IF Blank(name) THEN Rejected(d, "VALIDATION_ERROR")
    ELSE IF /\ copy_from_graph_id # NoGraphId
            /\ get_graph(d, copy_from_graph_id) = None
         THEN Rejected(d, "GRAPH_NOT_FOUND")
    ELSE Accepted(d, create_graph(d, graph_id, name, description, copy_from_graph_id),
                  <<>>)

\* PATCH /graphs/{graphId}
UpdateGraph(d, g, name, description) ==
    IF require_writable(d, g) # "OK" THEN Rejected(d, require_writable(d, g))
    ELSE Accepted(d, update_graph(d, g, name, description), <<>>)

\* delete_graph with the is_default check ahead of the readonly check
DeleteGraph_default_first(d, g) ==
    IF get_graph_or_404(d, g) # "OK" THEN Rejected(d, get_graph_or_404(d, g))
    ELSE IF get_graph(d, g)[1].is_default = 1
         THEN Rejected(d, "CANNOT_DELETE_DEFAULT")
    ELSE IF require_writable(d, g) # "OK" THEN Rejected(d, require_writable(d, g))
    ELSE Accepted(d, delete_graph(d, g), <<>>)

\* DELETE /graphs/{graphId}
DeleteGraph(d, g) ==
    IF require_writable(d, g) # "OK" THEN Rejected(d, require_writable(d, g))
    ELSE IF get_graph(d, g)[1].is_default = 1
         THEN Rejected(d, "CANNOT_DELETE_DEFAULT")
    ELSE Accepted(d, delete_graph(d, g), <<>>)

\* POST /graphs/{graphId}/courses; the answer carries the new courseId
CreateCourse(d, g, name, color) ==
    IF require_writable(d, g) # "OK" THEN Rejected(d, require_writable(d, g))
    ELSE IF Blank(name) THEN Rejected(d, "VALIDATION_ERROR")
    ELSE IF color = "" THEN Rejected(d, "VALIDATION_ERROR")
    ELSE Accepted(d, create_course(d, g, name, color), <<NextCourseId(d, g)>>)

\* PATCH /graphs/{graphId}/courses/{courseId}
UpdateCourse(d, g, course_id, name, color) ==
    IF require_writable(d, g) # "OK" THEN Rejected(d, require_writable(d, g))
    ELSE IF get_course(d, g, course_id) = None THEN Rejected(d, "COURSE_NOT_FOUND")
    ELSE Accepted(d, update_course(d, g, course_id, name, color), <<>>)

\* DELETE /graphs/{graphId}/courses/{courseId}
DeleteCourse(d, g, course_id) ==
    IF require_writable(d, g) # "OK" THEN Rejected(d, require_writable(d, g))
    ELSE IF get_course(d, g, course_id) = None THEN Rejected(d, "COURSE_NOT_FOUND")
    ELSE Accepted(d, delete_course(d, g, course_id), <<>>)

\* create_topic looking for the slug in every graph
CreateTopic_slug_global(d, g, url_slug, display_name, course_id, content_html, content_text) ==
    IF require_writable(d, g) # "OK" THEN Rejected(d, require_writable(d, g))
    ELSE IF BlankSlug(url_slug) THEN Rejected(d, "VALIDATION_ERROR")
    ELSE IF Blank(display_name) THEN Rejected(d, "VALIDATION_ERROR")
    ELSE IF get_course(d, g, course_id) = None THEN Rejected(d, "COURSE_NOT_FOUND")
    ELSE IF \E h \in GraphIds : get_topic(d, h, url_slug) # None
         THEN Rejected(d, "DUPLICATE_ENTRY")
    ELSE Accepted(d, create_topic(d, g, url_slug, display_name, course_id,
                                  content_html, content_text), <<>>)

\* create_topic inserting the row ahead of its check of the course
CreateTopic_insert_before_course_check(d, g, url_slug, display_name, course_id, content_html, content_text) ==
    IF require_writable(d, g) # "OK" THEN Rejected(d, require_writable(d, g))
    ELSE IF BlankSlug(url_slug) THEN Rejected(d, "VALIDATION_ERROR")
    ELSE IF Blank(display_name) THEN Rejected(d, "VALIDATION_ERROR")
    ELSE IF get_topic(d, g, url_slug) # None THEN Rejected(d, "DUPLICATE_ENTRY")
    ELSE IF get_course(d, g, course_id) = None
         THEN Rejected(create_topic(d, g, url_slug, display_name, course_id,
                                    content_html, content_text).db, "COURSE_NOT_FOUND")
    ELSE Accepted(d, create_topic(d, g, url_slug, display_name, course_id,
                                  content_html, content_text), <<>>)

\* POST /graphs/{graphId}/topics
CreateTopic(d, g, url_slug, display_name, course_id, content_html, content_text) ==
    IF require_writable(d, g) # "OK" THEN Rejected(d, require_writable(d, g))
    ELSE IF BlankSlug(url_slug) THEN Rejected(d, "VALIDATION_ERROR")
    ELSE IF Blank(display_name) THEN Rejected(d, "VALIDATION_ERROR")
    ELSE IF get_course(d, g, course_id) = None THEN Rejected(d, "COURSE_NOT_FOUND")
    ELSE IF get_topic(d, g, url_slug) # None THEN Rejected(d, "DUPLICATE_ENTRY")
    ELSE Accepted(d, create_topic(d, g, url_slug, display_name, course_id,
                                  content_html, content_text), <<>>)

\* PATCH /graphs/{graphId}/topics/{urlSlug}
UpdateTopic(d, g, url_slug, display_name, course_id, content_html, content_text) ==
    IF require_writable(d, g) # "OK" THEN Rejected(d, require_writable(d, g))
    ELSE IF get_topic(d, g, url_slug) = None THEN Rejected(d, "TOPIC_NOT_FOUND")
    ELSE IF course_id # NoCourseId /\ get_course(d, g, course_id) = None
         THEN Rejected(d, "COURSE_NOT_FOUND")
    ELSE Accepted(d, update_topic(d, g, url_slug, display_name, course_id,
                                  content_html, content_text), <<>>)

\* DELETE /graphs/{graphId}/topics/{urlSlug}
DeleteTopic(d, g, url_slug) ==
    IF require_writable(d, g) # "OK" THEN Rejected(d, require_writable(d, g))
    ELSE IF get_topic(d, g, url_slug) = None THEN Rejected(d, "TOPIC_NOT_FOUND")
    ELSE Accepted(d, delete_topic(d, g, url_slug), <<>>)

\* create_edge answering a request for a stored edge with a success and no write
CreateEdge_silent_duplicate(d, g, parent_slug, child_slug) ==
    IF require_writable(d, g) # "OK" THEN Rejected(d, require_writable(d, g))
    ELSE IF parent_slug = child_slug THEN Rejected(d, "VALIDATION_ERROR")
    ELSE IF get_topic(d, g, parent_slug) = None THEN Rejected(d, "TOPIC_NOT_FOUND")
    ELSE IF get_topic(d, g, child_slug) = None THEN Rejected(d, "TOPIC_NOT_FOUND")
    ELSE IF get_edge(d, g, parent_slug, child_slug) # None
         THEN Accepted(d, Done(d), <<>>)
    ELSE Accepted(d, create_edge(d, g, parent_slug, child_slug), <<>>)

\* POST /graphs/{graphId}/edges
CreateEdge(d, g, parent_slug, child_slug) ==
    IF require_writable(d, g) # "OK" THEN Rejected(d, require_writable(d, g))
    ELSE IF parent_slug = child_slug THEN Rejected(d, "VALIDATION_ERROR")
    ELSE IF get_topic(d, g, parent_slug) = None THEN Rejected(d, "TOPIC_NOT_FOUND")
    ELSE IF get_topic(d, g, child_slug) = None THEN Rejected(d, "TOPIC_NOT_FOUND")
    ELSE IF get_edge(d, g, parent_slug, child_slug) # None
         THEN Rejected(d, "DUPLICATE_ENTRY")
    ELSE Accepted(d, create_edge(d, g, parent_slug, child_slug), <<>>)

\* DELETE /graphs/{graphId}/edges/{parentSlug}/{childSlug}
DeleteEdge(d, g, parent_slug, child_slug) ==
    IF require_writable(d, g) # "OK" THEN Rejected(d, require_writable(d, g))
    ELSE IF get_edge(d, g, parent_slug, child_slug) = None
         THEN Rejected(d, "EDGE_NOT_FOUND")
    ELSE Accepted(d, delete_edge(d, g, parent_slug, child_slug), <<>>)

\* POST /graphs/{graphId}/batch; the answer carries the BatchResult counters
BatchOperations(d, g, ops) ==
    IF require_writable(d, g) # "OK" THEN Rejected(d, require_writable(d, g))
    ELSE LET r == batch_update(d, g, ops)
         IN [db |-> r.db, code |-> "OK",
             data |-> [i \in 1..Len(GroupOrder) |-> BatchCount(r.log, GroupOrder[i])]]

\* GET /graphs/{graphId}/topics/{urlSlug}
GetTopic(d, g, url_slug) ==
    IF get_graph_or_404(d, g) # "OK" THEN Rejected(d, get_graph_or_404(d, g))
    ELSE IF get_topic(d, g, url_slug) = None THEN Rejected(d, "TOPIC_NOT_FOUND")
    ELSE [db |-> d, code |-> "OK", data |-> get_topic(d, g, url_slug)]

\* GET /graphs/{graphId}/topics/{urlSlug}/prerequisites
GetTopicPrerequisites(d, g, url_slug) ==
    IF get_graph_or_404(d, g) # "OK" THEN Rejected(d, get_graph_or_404(d, g))
    ELSE IF get_topic(d, g, url_slug) = None THEN Rejected(d, "TOPIC_NOT_FOUND")
    ELSE [db |-> d, code |-> "OK", data |-> get_topic_prerequisites(d, g, url_slug)]

\* GET /graphs/{graphId}/topics/{urlSlug}/dependents
GetTopicDependents(d, g, url_slug) ==
    IF get_graph_or_404(d, g) # "OK" THEN Rejected(d, get_graph_or_404(d, g))
    ELSE IF get_topic(d, g, url_slug) = None THEN Rejected(d, "TOPIC_NOT_FOUND")
    ELSE [db |-> d, code |-> "OK", data |-> get_topic_dependents(d, g, url_slug)]

\* ---------------------------------------------------------------------------
\* Batch requests
\* ---------------------------------------------------------------------------
\* a batch request: each group mapped to the list of its items
OpsOf(req) ==
    [grp \in Groups |->
        LET InGroup(it) == it.grp = grp IN SelectSeq(req, InGroup)]

\* the requests whose items, listed in any order, come from the set items
BatchRequests(items) ==
    {OpsOf(req) : req \in UNION {[1..n -> items] : n \in 0..MaxBatchItems}}

EdgeItem(grp, p, c) == [grp |-> grp, parent_slug |-> p, child_slug |-> c]

TopicDeleteItem(s) == [grp |-> "topics.delete", url_slug |-> s]

CourseDeleteItem(c) == [grp |-> "courses.delete", course_id |-> c]

CourseCreateItem(n) == [grp |-> "courses.create", name |-> n, color |-> "#111"]

CourseUpdateItem(c, n) ==
    [grp |-> "courses.update", course_id |-> c, name |-> n, color |-> Null]

TopicCreateItem(s, c, h) ==
    [grp |-> "topics.create", url_slug |-> s, display_name |-> "T",
     course_id |-> c, content_html |-> h, content_text |-> Null]

TopicUpdateItem(s, h, t) ==
    [grp |-> "topics.update", url_slug |-> s, display_name |-> "U",
     course_id |-> NoCourseId, content_html |-> h, content_text |-> t]

\* ---------------------------------------------------------------------------
\* Steps
\* ---------------------------------------------------------------------------
\* the request op addressed to graph g with arguments arg is handled with
\* outcome r
Step(op, g, arg, r) ==
    /\ db' = r.db
    /\ resp' = Answer(op, g, r.code, IF r.code = "OK" THEN arg ELSE <<>>, r.data)
    /\ UNCHANGED <<issued, calls>>

\* the highest courseId of a graph, 0 when it has no course
MaxCourse(d, g) == NextCourseId(d, g) - 1

\* the tables stay within the bounds of the model
Within(d) ==
    \A g \in GraphIds : Len(d.edges[g]) <= MaxEdges /\ MaxCourse(d, g) <= MaxCourseId

\* ---------------------------------------------------------------------------
\* Spec: the registry of graphs, from the bootstrap on
\* ---------------------------------------------------------------------------
\* POST /graphs; the model stops drawing ids after MaxGraphs
RegCreateGraph ==
    \E name \in {"", "G"}, copy \in GraphIds \cup {NoGraphId} :
        LET r == CreateGraph(db, issued + 1, name, Null, copy)
        IN /\ issued < MaxGraphs
           /\ db' = r.db
           /\ issued' = IF r.code = "OK" THEN issued + 1 ELSE issued
           /\ resp' = Answer("createGraph",
                             IF r.code = "OK" THEN issued + 1 ELSE NoGraphId,
                             r.code, <<copy, name>>, r.data)
           /\ UNCHANGED calls

RegUpdateGraph ==
    \E g \in GraphIds : Step("updateGraph", g, <<>>, UpdateGraph(db, g, "H", Null))

RegDeleteGraph == \E g \in GraphIds : Step("deleteGraph", g, <<>>, DeleteGraph(db, g))

RegCreateTopic ==
    \E g \in GraphIds :
        Step("createTopic", g, <<SlugA>>, CreateTopic(db, g, SlugA, "T", 1, Null, Null))

RegDeleteTopic ==
    \E g \in GraphIds : Step("deleteTopic", g, <<SlugA>>, DeleteTopic(db, g, SlugA))

Next ==
    \/ RegCreateGraph
    \/ RegUpdateGraph
    \/ RegDeleteGraph
    \/ RegCreateTopic
    \/ RegDeleteTopic

Spec == Init /\ [][Next]_vars

\* ---------------------------------------------------------------------------
\* Views of the state the claims read
\* ---------------------------------------------------------------------------
\* the graphs that are stored
Stored(d) == {g \in GraphIds : d.graphs[g] # None}

\* the elements of a list
Elems(l) == {l[i] : i \in 1..Len(l)}

\* the parentSlug values of the edges into topic s of graph g
EdgeParents(d, g, s) ==
    {e.parent_slug : e \in {x \in Elems(d.edges[g]) : x.child_slug = s}}

NoDuplicates(l) == \A i, j \in 1..Len(l) : l[i] = l[j] => i = j

\* the courses, topics and edges a graph owns
Content(d, g) ==
    [courses |-> d.courses[g], topics |-> d.topics[g], edges |-> d.edges[g]]

\* ---------------------------------------------------------------------------
\* Claims checked under Spec
\* ---------------------------------------------------------------------------
\* C5: in every state reached through createGraph (with or without a copy),
\* updateGraph and deleteGraph requests exactly one stored graph is the default
\* graph, and no graph made by createGraph is default or readonly.
C5_OneDefault ==
    /\ Cardinality({g \in Stored(db) : db.graphs[g][1].is_default = 1}) = 1
    /\ \A g \in Stored(db) \ {DefaultGraphId} :
           db.graphs[g][1].is_default = 0 /\ db.graphs[g][1].is_readonly = 0

\* a graph copied from the default graph is stored after another created graph
\* has been deleted
C5_Witness ==
    /\ \E g \in Stored(db) : db.graphs[g][1].source_graph_id = DefaultGraphId
    /\ \E g \in 1..issued : g \notin Stored(db)

\* C6 as stated: deleteGraph on the default graph is answered with
\* CANNOT_DELETE_DEFAULT and the default graph stays stored.
C6_Original ==
    (resp.op = "deleteGraph" /\ resp.g = DefaultGraphId)
        => /\ resp.code = "CANNOT_DELETE_DEFAULT"
           /\ DefaultGraphId \in Stored(db)

\* C6 amended: deleteGraph on the default graph fails and the default graph
\* stays stored; the default graph is readonly and the readonly check comes
\* first, so the error code is READONLY_GRAPH.
C6_Amended ==
    /\ DefaultGraphId \in Stored(db)
    /\ db.graphs[DefaultGraphId][1].is_default = 1
    /\ (resp.op = "deleteGraph" /\ resp.g = DefaultGraphId)
            => resp.code = "READONLY_GRAPH"

\* deleteGraph has been addressed to a default graph that holds topics
C6_Witness ==
    /\ resp.op = "deleteGraph"
    /\ resp.g = DefaultGraphId
    /\ db.topics[DefaultGraphId] # <<>>

\* C8: createGraph with a valid name and copyFromGraphId = S yields, when S is
\* stored, a new writable graph with sourceGraphId = S whose courses, topics
\* (parent_slugs included) and edges are those S had before the request; when
\* S is not stored it is answered with GRAPH_NOT_FOUND and the database is
\* unchanged.
C8_Copy ==
    [][\A S \in GraphIds :
         (resp'.op = "createGraph" /\ resp'.arg = <<S, "G">>)
            => IF S \in Stored(db)
               THEN /\ resp'.code = "OK"
                    /\ resp'.g \notin Stored(db)
                    /\ resp'.g \in Stored(db')
                    /\ db'.graphs[resp'.g][1].source_graph_id = S
                    /\ db'.graphs[resp'.g][1].is_readonly = 0
                    /\ Content(db', resp'.g) = Content(db, S)
                    /\ Len(db'.topics[resp'.g]) = Len(db.topics[S])
                    /\ Len(db'.edges[resp'.g]) = Len(db.edges[S])
                    /\ Cardinality(db'.courses[resp'.g]) = Cardinality(db.courses[S])
               ELSE /\ resp'.code = "GRAPH_NOT_FOUND"
                    /\ db' = db
                    /\ Stored(db') = Stored(db)]_vars

\* a copy of the readonly default graph is stored with its topics and edges
C8_Witness ==
    /\ resp.op = "createGraph"
    /\ resp.code = "OK"
    /\ resp.arg[1] = DefaultGraphId
    /\ db.topics[resp.g] # <<>>
    /\ db.edges[resp.g] # <<>>
    /\ db.graphs[DefaultGraphId][1].is_readonly = 1

\* ---------------------------------------------------------------------------
\* SpecEdges: single-item createEdge and deleteEdge requests on the topics of
\* a writable graph
\* ---------------------------------------------------------------------------
\* the first id create_graph draws
FirstGraphId == DefaultGraphId + 1

\* the database after initialize, a createGraph that copies the default graph
\* and, when the copy brought no course, a createCourse
Workspace(seed) ==
    LET d0 == _init_default_graph(EmptyDb, seed)
        d1 == CreateGraph(d0, FirstGraphId, "G", Null, DefaultGraphId).db
    IN IF d1.courses[FirstGraphId] = {}
       THEN CreateCourse(d1, FirstGraphId, "Alg", "#111").db
       ELSE d1

InitEdges ==
    /\ \E seed \in Seeds : db = Workspace(seed)
    /\ issued = 1
    /\ resp = Answer("initialize", DefaultGraphId, "OK", <<>>, <<>>)
    /\ calls = NoCalls

EdCreateTopic ==
    \E s \in Slugs :
        Step("createTopic", FirstGraphId, <<s>>,
             CreateTopic(db, FirstGraphId, s, "T", 1, Null, Null))

EdCreateEdge ==
    \E g \in {DefaultGraphId, FirstGraphId}, p \in Slugs, c \in Slugs :
        /\ Step("createEdge", g, <<p, c>>, CreateEdge(db, g, p, c))
        /\ Within(db')

EdDeleteEdge ==
    \E g \in {DefaultGraphId, FirstGraphId}, p \in Slugs, c \in Slugs :
        Step("deleteEdge", g, <<p, c>>, DeleteEdge(db, g, p, c))

NextEdges ==
    \/ EdCreateTopic
    \/ EdCreateEdge
    \/ EdDeleteEdge

SpecEdges == InitEdges /\ [][NextEdges]_vars

\* C1: after any sequence of single-item createEdge and deleteEdge requests,
\* accepted or rejected, the parentSlugs of every topic of a writable graph
\* lists exactly the parentSlug values of the edges stored with that topic as
\* child, each exactly once.
C1_ParentSlugs ==
    \A g \in Stored(db) :
        db.graphs[g][1].is_readonly = 0 =>
            \A i \in 1..Len(db.topics[g]) :
                LET T == db.topics[g][i]
                IN /\ NoDuplicates(parentSlugs(T))
                   /\ Elems(parentSlugs(T)) = EdgeParents(db, g, T.url_slug)

\* a deleteEdge was accepted on a topic that had two parents, one of them
\* with a non-ASCII slug, and the topic keeps the other parent
C1_Witness ==
    /\ resp.op = "deleteEdge"
    /\ resp.code = "OK"
    /\ \E i \in 1..Len(db.topics[resp.g]) :
           /\ db.topics[resp.g][i].url_slug = resp.arg[2]
           /\ parentSlugs(db.topics[resp.g][i]) = <<SlugE>>
           /\ resp.arg[1] # SlugE

\* ---------------------------------------------------------------------------
\* Requests on the content of one graph
\* ---------------------------------------------------------------------------
\* the batch request the tenants send: an edge, a topic and a course item
TenantBatches ==
    {OpsOf(<<CourseUpdateItem(2, "Geo"), TopicDeleteItem(SlugE),
             EdgeItem("edges.delete", SlugE, SlugB)>>)}

\* one request of each kind, addressed to any graph id of Targets
ReqCreateCourse(Targets) ==
    \E g \in Targets :
        /\ Step("createCourse", g, <<>>, CreateCourse(db, g, "Alg ", "#111"))
        /\ Within(db')

ReqUpdateCourse(Targets) ==
    \E g \in Targets : Step("updateCourse", g, <<2>>, UpdateCourse(db, g, 2, "Geo", Null))

ReqDeleteCourse(Targets) ==
    \E g \in Targets : Step("deleteCourse", g, <<2>>, DeleteCourse(db, g, 2))

ReqCreateTopic(Targets) ==
    \E g \in Targets :
        Step("createTopic", g, <<SlugE>>, CreateTopic(db, g, SlugE, "U", 1, Null, Null))

ReqUpdateTopic(Targets) ==
    \E g \in Targets :
        Step("updateTopic", g, <<SlugE>>,
             UpdateTopic(db, g, SlugE, "U", NoCourseId, Null, Null))

ReqDeleteTopic(Targets) ==
    \E g \in Targets : Step("deleteTopic", g, <<SlugE>>, DeleteTopic(db, g, SlugE))

ReqCreateEdge(Targets) ==
    \E g \in Targets :
        /\ Step("createEdge", g, <<SlugE, SlugB>>, CreateEdge(db, g, SlugE, SlugB))
        /\ Within(db')

ReqDeleteEdge(Targets) ==
    \E g \in Targets :
        Step("deleteEdge", g, <<SlugE, SlugB>>, DeleteEdge(db, g, SlugE, SlugB))

ReqBatch(Targets) ==
    \E g \in Targets, ops \in TenantBatches :
        /\ Step("batch", g, <<>>, BatchOperations(db, g, ops))
        /\ Within(db')

ReqUpdateGraph(Targets) ==
    \E g \in Targets : Step("updateGraph", g, <<>>, UpdateGraph(db, g, "H", Null))

ReqDeleteGraph(Targets) == \E g \in Targets : Step("deleteGraph", g, <<>>, DeleteGraph(db, g))

\* the operations that write courses, topics and edges
DataOps ==
    {"createCourse", "updateCourse", "deleteCourse", "createTopic", "updateTopic",
     "deleteTopic", "createEdge", "deleteEdge", "batch"}

\* the mutating operations
MutatingOps == DataOps \cup {"updateGraph", "deleteGraph"}

\* ---------------------------------------------------------------------------
\* SpecTenants: the default graph, a copy of it and a copy of the copy;
\* the requests go to the copies
\* ---------------------------------------------------------------------------
Tenants(seed) ==
    CreateGraph(Workspace(seed), FirstGraphId + 1, "H", Null, FirstGraphId).db

InitTenants ==
    /\ \E seed \in Seeds : db = Tenants(seed)
    /\ issued = 2
    /\ resp = Answer("initialize", DefaultGraphId, "OK", <<>>, <<>>)
    /\ calls = NoCalls

\* the tenants address their own graphs and ids that are not stored
TenantIds == GraphIds \ {DefaultGraphId}

NextTenants ==
    \/ ReqCreateCourse(TenantIds)
    \/ ReqUpdateCourse(TenantIds)
    \/ ReqDeleteCourse(TenantIds)
    \/ ReqCreateTopic(TenantIds)
    \/ ReqUpdateTopic(TenantIds)
    \/ ReqDeleteTopic(TenantIds)
    \/ ReqCreateEdge(TenantIds)
    \/ ReqDeleteEdge(TenantIds)
    \/ ReqBatch(TenantIds)

SpecTenants == InitTenants /\ [][NextTenants]_vars

\* C7: a course, topic, edge or batch request addressed to graph G leaves the
\* courses, the topics (parent_slugs included) and the edges of every other
\* graph as they were, also between a graph and its copy.
C7_Isolation ==
    [][resp'.op \in DataOps =>
          \A h \in GraphIds \ {resp'.g} : Content(db', h) = Content(db, h)]_vars

\* deleteTopic was accepted on a graph that has a copy and was copied itself;
\* the copy and the source still hold the topic and its edge
C7_Witness ==
    /\ resp.op = "deleteTopic"
    /\ resp.code = "OK"
    /\ resp.g = FirstGraphId
    /\ get_graph(db, FirstGraphId + 1)[1].source_graph_id = FirstGraphId
    /\ get_topic(db, resp.g, SlugE) = None
    /\ \A h \in {DefaultGraphId, FirstGraphId + 1} :
           /\ get_topic(db, h, SlugE) # None
           /\ get_edge(db, h, SlugE, SlugB) # None

\* C2: after every completed mutation every stored topic's parentSlugs equals
\* the set of parentSlug values of the edges stored in the same graph with
\* that topic as child.
C2_ParentSlugsMatchEdges ==
    \A g \in Stored(db) :
        \A i \in 1..Len(db.topics[g]) :
            Elems(parentSlugs(db.topics[g][i]))
                = EdgeParents(db, g, db.topics[g][i].url_slug)

\* C3: after an accepted deleteTopic(g, s) graph g stores no edge from or to
\* s, no topic of g has s in its parentSlugs, and getTopic,
\* getTopicPrerequisites and getTopicDependents for s answer TOPIC_NOT_FOUND.
C3_DeleteTopic ==
    (resp.op = "deleteTopic" /\ resp.code = "OK") =>
        LET g == resp.g
            s == resp.arg[1]
        IN /\ \A e \in Elems(db.edges[g]) : e.parent_slug # s /\ e.child_slug # s
           /\ \A i \in 1..Len(db.topics[g]) : ~InList(s, parentSlugs(db.topics[g][i]))
           /\ GetTopic(db, g, s).code = "TOPIC_NOT_FOUND"
           /\ GetTopicPrerequisites(db, g, s).code = "TOPIC_NOT_FOUND"
           /\ GetTopicDependents(db, g, s).code = "TOPIC_NOT_FOUND"

\* ---------------------------------------------------------------------------
\* SpecReadonly: every mutating request, addressed to the readonly default
\* graph, to a writable graph and to graphs that are not stored
\* ---------------------------------------------------------------------------
NextReadonly ==
    \/ ReqUpdateGraph(GraphIds)
    \/ ReqDeleteGraph(GraphIds)
    \/ ReqCreateCourse(GraphIds)
    \/ ReqUpdateCourse(GraphIds)
    \/ ReqDeleteCourse(GraphIds)
    \/ ReqCreateTopic(GraphIds)
    \/ ReqUpdateTopic(GraphIds)
    \/ ReqDeleteTopic(GraphIds)
    \/ ReqCreateEdge(GraphIds)
    \/ ReqDeleteEdge(GraphIds)
    \/ ReqBatch(GraphIds)

SpecReadonly == InitEdges /\ [][NextReadonly]_vars

\* C4: a mutating request addressed to a readonly graph is answered with
\* READONLY_GRAPH and leaves the whole database, so the graph record and its
\* courses, topics and edges, as it was; addressed to a graph that is not
\* stored it is answered with GRAPH_NOT_FOUND.
C4_Readonly ==
    [][resp'.op \in MutatingOps =>
          IF resp'.g \notin Stored(db)
          THEN resp'.code = "GRAPH_NOT_FOUND" /\ db' = db
          ELSE db.graphs[resp'.g][1].is_readonly = 1 =>
                   resp'.code = "READONLY_GRAPH" /\ db' = db]_vars

\* a batch request was refused on the readonly default graph, which holds
\* topics and an edge, after the writable graph was deleted
C4_Witness ==
    /\ resp.op = "batch"
    /\ resp.code = "READONLY_GRAPH"
    /\ resp.g = DefaultGraphId
    /\ db.edges[DefaultGraphId] # <<>>
    /\ FirstGraphId \notin Stored(db)

\* ---------------------------------------------------------------------------
\* SpecBatch: batch requests on a writable copy of the default graph
\* ---------------------------------------------------------------------------
\* one item for each of the eight groups
BatchItems ==
    {EdgeItem("edges.delete", SlugE, SlugB),
     TopicDeleteItem(SlugB),
     CourseDeleteItem(2),
     CourseCreateItem("Alg"),
     TopicCreateItem(SlugB, 1, Null),
     EdgeItem("edges.create", SlugE, SlugB),
     CourseUpdateItem(2, "Geo"),
     TopicUpdateItem(SlugB, Null, Null)}

\* the number of items of a request
ItemCount(ops) == Len(BatchPlan(ops))

\* the requests of at most MaxBatchItems items
BatchReqs == BatchRequests(BatchItems)

BatchRequest ==
    \E ops \in BatchReqs :
        /\ Step("batch", FirstGraphId, ops, BatchOperations(db, FirstGraphId, ops))
        /\ Within(db')

InitBatch ==
    /\ db = Workspace(SeedEB)
    /\ issued = 1
    /\ resp = Answer("initialize", DefaultGraphId, "OK", <<>>, <<>>)
    /\ calls = NoCalls

NextBatch == BatchRequest

SpecBatch == InitBatch /\ [][NextBatch]_vars

\* C9: a batch request applies its groups in the order edge deletes, topic
\* deletes, course deletes, course creates, topic creates, edge creates,
\* course updates, topic updates: every item of the request is tried, and an
\* item of an earlier group is tried before every item of a later group,
\* whatever the sizes of the groups.
C9_GroupOrder ==
    [][(resp'.op = "batch" /\ resp'.code = "OK") =>
          \A run \in {batch_update(db, resp'.g, resp'.arg)} :
              LET Claimed == <<"edges.delete", "topics.delete", "courses.delete",
                               "courses.create", "topics.create", "edges.create",
                               "courses.update", "topics.update">>
                  Rank(grp) == CHOOSE i \in 1..Len(Claimed) : Claimed[i] = grp
                  Tried(grp) == Cardinality({i \in 1..Len(run.log) :
                                                run.log[i].item.grp = grp})
              IN /\ db' = run.db
                 /\ \A grp \in Groups : Tried(grp) = Len(resp'.arg[grp])
                 /\ \A i \in 1..Len(run.log) : \A j \in 1..Len(run.log) :
                        i < j => Rank(run.log[i].item.grp)
                                     <= Rank(run.log[j].item.grp)]_vars

\* a request that creates topic b and the edge into it was answered: both
\* were counted and the new topic lists the edge's parent
C9_Witness ==
    /\ resp.op = "batch"
    /\ resp.code = "OK"
    /\ Len(resp.arg["topics.create"]) = 1
    /\ Len(resp.arg["edges.create"]) = 1
    /\ resp.data[5] = 1
    /\ resp.data[6] = 1
    /\ get_topic(db, resp.g, SlugB) # None
    /\ parentSlugs(get_topic(db, resp.g, SlugB)[1]) = <<SlugE>>

\* C10: a failing item does not abort a batch: the item itself changes
\* nothing, every other item is tried and has the effect it has in the request
\* without the failing item, and the answer is a success carrying the eight
\* counters of the items that were applied.
C10_FailingItemSkipped ==
    [][(resp'.op = "batch" /\ resp'.g \in Stored(db)
            /\ db.graphs[resp'.g][1].is_readonly = 0) =>
          \A plan \in {BatchPlan(resp'.arg)} :
          \A run \in {BatchRun(db, resp'.g, plan, <<>>)} :
              LET g == resp'.g
                  Drop(l, k) == SubSeq(l, 1, k - 1) \o SubSeq(l, k + 1, Len(l))
              IN /\ resp'.code = "OK"
                 /\ db' = run.db
                 /\ Len(run.log) = Len(plan)
                 /\ \A k \in 1..Len(plan) :
                        ~run.log[k].ok =>
                            /\ \A before \in {BatchRun(db, g, SubSeq(plan, 1, k - 1),
                                                       <<>>).db} :
                                   BatchCall(before, g, plan[k]).db = before
                            /\ BatchRun(db, g, Drop(plan, k), <<>>)
                                   = [db |-> db', log |-> Drop(run.log, k)]
                 /\ resp'.data = [i \in 1..Len(GroupOrder) |->
                        Cardinality({k \in 1..Len(plan) :
                            plan[k].grp = GroupOrder[i] /\ run.log[k].ok})]]_vars

\* a request of two items was answered with a success: its first item, the
\* creation of a topic that is stored already, failed and was not counted; its
\* second item, the renaming of course 2, was applied
C10_Witness ==
    /\ resp.op = "batch"
    /\ resp.code = "OK"
    /\ ItemCount(resp.arg) = 2
    /\ Len(resp.arg["topics.create"]) = 1
    /\ resp.data[5] = 0
    /\ Len(resp.arg["courses.update"]) = 1
    /\ resp.data[7] = 1
    /\ \E c \in db.courses[resp.g] : c.course_id = 2 /\ c.name = "Geo"

\* the answer of the single-item request that does what batch item it does
SingleItem(d, g, it) ==
    CASE it.grp = "edges.delete" -> DeleteEdge(d, g, it.parent_slug, it.child_slug)
      [] it.grp = "topics.delete" -> DeleteTopic(d, g, it.url_slug)
      [] it.grp = "courses.delete" -> DeleteCourse(d, g, it.course_id)
      [] it.grp = "courses.create" -> CreateCourse(d, g, it.name, it.color)
      [] it.grp = "topics.create" ->
            CreateTopic(d, g, it.url_slug, it.display_name, it.course_id,
                        it.content_html, it.content_text)
      [] it.grp = "edges.create" -> CreateEdge(d, g, it.parent_slug, it.child_slug)
      [] it.grp = "courses.update" ->
            UpdateCourse(d, g, it.course_id, it.name, it.color)
      [] it.grp = "topics.update" ->
            UpdateTopic(d, g, it.url_slug, it.display_name, it.course_id,
                        it.content_html, it.content_text)

\* C11: each counter of the batch result is the number of items of its group
\* whose single-item operation succeeds at the moment the item is reached; an
\* item whose single-item operation fails (a delete or an update of something
\* that is not stored, a duplicate create) is not counted.
C11_Counts ==
    [][(resp'.op = "batch" /\ resp'.code = "OK") =>
          \A plan \in {BatchPlan(resp'.arg)} :
              resp'.data = [i \in 1..Len(GroupOrder) |->
                  Cardinality({k \in 1..Len(plan) :
                      /\ plan[k].grp = GroupOrder[i]
                      /\ SingleItem(BatchRun(db, resp'.g, SubSeq(plan, 1, k - 1),
                                             <<>>).db,
                                    resp'.g, plan[k]).code = "OK"})]]_vars

\* ---------------------------------------------------------------------------
\* SpecEdgeRules: topics and edges of one writable graph, edges created by
\* single-item requests and by batch items; the requests are kept with their
\* answers, rejected ones too
\* ---------------------------------------------------------------------------
\* the request op addressed to graph g with arguments arg is handled with
\* outcome r; resp keeps the arguments whatever the answer
Handle(op, g, arg, r) ==
    /\ db' = r.db
    /\ resp' = Answer(op, g, r.code, arg, r.data)
    /\ UNCHANGED <<issued, calls>>

\* the slugs the edge requests name
EdgeSlugs == {SlugE, SlugB}

RuCreateTopic ==
    \E s \in EdgeSlugs :
        Handle("createTopic", FirstGraphId, <<s>>,
               CreateTopic(db, FirstGraphId, s, "T", 1, Null, Null))

RuDeleteTopic ==
    \E s \in EdgeSlugs :
        Handle("deleteTopic", FirstGraphId, <<s>>, DeleteTopic(db, FirstGraphId, s))

RuCreateEdge ==
    \E p \in EdgeSlugs, c \in EdgeSlugs :
        /\ Handle("createEdge", FirstGraphId, <<p, c>>,
                  CreateEdge(db, FirstGraphId, p, c))
        /\ Within(db')

RuDeleteEdge ==
    \E p \in EdgeSlugs, c \in EdgeSlugs :
        Handle("deleteEdge", FirstGraphId, <<p, c>>, DeleteEdge(db, FirstGraphId, p, c))

\* a batch request with one edges.create item
RuBatchCreateEdge ==
    \E p \in EdgeSlugs, c \in EdgeSlugs :
        /\ Handle("batch", FirstGraphId, <<p, c>>,
                  BatchOperations(db, FirstGraphId,
                                  OpsOf(<<EdgeItem("edges.create", p, c)>>)))
        /\ Within(db')

NextEdgeRules ==
    \/ RuCreateTopic
    \/ RuDeleteTopic
    \/ RuCreateEdge
    \/ RuDeleteEdge
    \/ RuBatchCreateEdge

SpecEdgeRules == InitEdges /\ [][NextEdgeRules]_vars

\* C12: a single-item createEdge request on a writable graph is rejected with
\* VALIDATION_ERROR when parentSlug = childSlug, whether the topic is stored or
\* not; otherwise with TOPIC_NOT_FOUND when the parent or the child topic is
\* not stored in the graph; otherwise with DUPLICATE_ENTRY when the edge is
\* stored already. A request for a stored edge is never accepted, a rejected
\* request leaves the database as it was, and an accepted one stores its edge.
C12_CreateEdgeRejections ==
    [][resp'.op = "createEdge" =>
          LET g == resp'.g
              p == resp'.arg[1]
              c == resp'.arg[2]
              HasTopic(s) == \E i \in 1..Len(db.topics[g]) : db.topics[g][i].url_slug = s
              HasEdge == \E i \in 1..Len(db.edges[g]) :
                             /\ db.edges[g][i].parent_slug = p
                             /\ db.edges[g][i].child_slug = c
          IN /\ p = c => resp'.code = "VALIDATION_ERROR"
             /\ (p # c /\ (~HasTopic(p) \/ ~HasTopic(c))) => resp'.code = "TOPIC_NOT_FOUND"
             /\ (p # c /\ HasTopic(p) /\ HasTopic(c) /\ HasEdge)
                    => resp'.code = "DUPLICATE_ENTRY"
             /\ HasEdge => resp'.code # "OK"
             /\ resp'.code # "OK" => db' = db
             /\ resp'.code = "OK" =>
                    /\ Len(db'.edges[g]) = Len(db.edges[g]) + 1
                    /\ [parent_slug |-> p, child_slug |-> c] \in Elems(db'.edges[g])]_vars

\* a createEdge for an edge that is stored between two stored topics was
\* answered with DUPLICATE_ENTRY and the edge is stored once
C12_Witness ==
    /\ resp.op = "createEdge"
    /\ resp.code = "DUPLICATE_ENTRY"
    /\ get_topic(db, resp.g, resp.arg[1]) # None
    /\ get_topic(db, resp.g, resp.arg[2]) # None
    /\ Cardinality({i \in 1..Len(db.edges[resp.g]) :
           db.edges[resp.g][i] = [parent_slug |-> resp.arg[1],
                                  child_slug |-> resp.arg[2]]}) = 1

\* C13: no reachable state stores an edge whose parentSlug equals its
\* childSlug, whichever operation stored it.
C13_NoSelfLoop ==
    \A g \in Stored(db) :
        \A i \in 1..Len(db.edges[g]) :
            db.edges[g][i].parent_slug # db.edges[g][i].child_slug

\* C14: in every reachable state both endpoints of every stored edge are topics
\* stored in the same graph: an edge is stored only while both topics exist,
\* by createEdge and by a batch edge create alike, and deleteTopic takes the
\* edges of its topic with it.
C14_EndpointsStored ==
    \A g \in Stored(db) :
        \A i \in 1..Len(db.edges[g]) :
            /\ get_topic(db, g, db.edges[g][i].parent_slug) # None
            /\ get_topic(db, g, db.edges[g][i].child_slug) # None

\* ---------------------------------------------------------------------------
\* SpecTopics: createTopic and updateTopic requests and batch topic items on a
\* writable graph whose courses come and go, and createTopic on its copy
\* ---------------------------------------------------------------------------
\* the slug the topic requests name
TopicSlug == SlugA

\* the courseId values the requests carry: course 1 is stored at the start
CourseIds == 1..MaxCourseId

\* the contentHtml and contentText values the requests carry
Htmls == {Null, "", "<p>"}
Texts == {Null, "t"}

\* the arguments of a topic request
TopicArg(s, c, h, t) == [url_slug |-> s, course_id |-> c, content_html |-> h,
                         content_text |-> t]

InitTopics ==
    /\ db = Tenants(NoSeed)
    /\ issued = 2
    /\ resp = Answer("initialize", DefaultGraphId, "OK", <<>>, <<>>)
    /\ calls = NoCalls

TpCreateTopic ==
    \E c \in CourseIds, h \in Htmls :
        Handle("createTopic", FirstGraphId, TopicArg(TopicSlug, c, h, Null),
               CreateTopic(db, FirstGraphId, TopicSlug, "T", c, h, Null))

\* the same slug, sent to the copy
TpCreateTopicInCopy ==
    Handle("createTopic", FirstGraphId + 1, TopicArg(TopicSlug, 1, Null, Null),
           CreateTopic(db, FirstGraphId + 1, TopicSlug, "T", 1, Null, Null))

TpUpdateTopic ==
    \E c \in CourseIds \cup {NoCourseId}, h \in Htmls, t \in Texts :
        Handle("updateTopic", FirstGraphId, TopicArg(TopicSlug, c, h, t),
               UpdateTopic(db, FirstGraphId, TopicSlug, Null, c, h, t))

TpDeleteTopic ==
    Handle("deleteTopic", FirstGraphId, TopicArg(TopicSlug, NoCourseId, Null, Null),
           DeleteTopic(db, FirstGraphId, TopicSlug))

\* a batch request with one topics.create item
TpBatchCreateTopic ==
    \E c \in CourseIds, h \in Htmls :
        Handle("batchCreateTopic", FirstGraphId, TopicArg(TopicSlug, c, h, Null),
               BatchOperations(db, FirstGraphId,
                               OpsOf(<<TopicCreateItem(TopicSlug, c, h)>>)))

\* a batch request with one topics.update item
TpBatchUpdateTopic ==
    \E c \in CourseIds \cup {NoCourseId}, h \in Htmls, t \in Texts :
        Handle("batchUpdateTopic", FirstGraphId, TopicArg(TopicSlug, c, h, t),
               BatchOperations(db, FirstGraphId,
                   OpsOf(<<[TopicUpdateItem(TopicSlug, h, t) EXCEPT !.course_id = c]>>)))

TpCreateCourse ==
    /\ Handle("createCourse", FirstGraphId, <<>>,
              CreateCourse(db, FirstGraphId, "Geo", "#222"))
    /\ Within(db')

TpDeleteCourse ==
    \E c \in CourseIds :
        Handle("deleteCourse", FirstGraphId, <<c>>, DeleteCourse(db, FirstGraphId, c))

NextTopics ==
    \/ TpCreateTopic
    \/ TpCreateTopicInCopy
    \/ TpUpdateTopic
    \/ TpDeleteTopic
    \/ TpBatchCreateTopic
    \/ TpBatchUpdateTopic
    \/ TpCreateCourse
    \/ TpDeleteCourse

SpecTopics == InitTopics /\ [][NextTopics]_vars

\* the urlSlug values of the topics of graph g, in row order
SlugsOf(d, g) == [i \in 1..Len(d.topics[g]) |-> d.topics[g][i].url_slug]

C16_CourseMustExist ==
    [][(/\ resp'.op \in {"createTopic", "updateTopic",
                         "batchCreateTopic", "batchUpdateTopic"}
        /\ resp'.arg.course_id # NoCourseId
        /\ \A c \in db.courses[resp'.g] : c.course_id # resp'.arg.course_id)
          => /\ db'.topics = db.topics
             /\ resp'.op = "createTopic" => resp'.code = "COURSE_NOT_FOUND"
             /\ resp'.op = "updateTopic" =>
                    resp'.code = IF InList(resp'.arg.url_slug, SlugsOf(db, resp'.g))
                                 THEN "COURSE_NOT_FOUND" ELSE "TOPIC_NOT_FOUND"]_vars

\* C19: in every reachable state the hasContent of every topic is true exactly
\* when its stored contentHtml or contentText is non-empty, whether the topic
\* was created or last updated with or without content fields.
C19_HasContent ==
    \A g \in Stored(db) :
        \A i \in 1..Len(db.topics[g]) :
            LET T == db.topics[g][i]
                NonEmpty(v) == v # Null /\ v # ""
            IN T.has_content = 1 <=> (NonEmpty(T.content_html) \/ NonEmpty(T.content_text))

\* an updateTopic without content fields was accepted for a topic that was
\* created with contentHtml, and the topic still has content
C19_Witness ==
    /\ resp.op = "updateTopic"
    /\ resp.code = "OK"
    /\ resp.arg.content_html = Null
    /\ resp.arg.content_text = Null
    /\ get_topic(db, resp.g, resp.arg.url_slug)[1].content_html = "<p>"
    /\ get_topic(db, resp.g, resp.arg.url_slug)[1].has_content = 1

\* ---------------------------------------------------------------------------
\* SpecCourses: createCourse and deleteCourse requests on two new graphs
\* ---------------------------------------------------------------------------
\* the database after initialize and two createGraph requests without a copy
NewGraphs ==
    LET d0 == _init_default_graph(EmptyDb, NoSeed)
        d1 == CreateGraph(d0, FirstGraphId, "G", Null, NoGraphId).db
    IN CreateGraph(d1, FirstGraphId + 1, "H", Null, NoGraphId).db

InitCourses ==
    /\ db = NewGraphs
    /\ issued = 2
    /\ resp = Answer("initialize", DefaultGraphId, "OK", <<>>, <<>>)
    /\ calls = NoCalls

CoCreateCourse ==
    \E g \in TenantIds, name \in {"Alg ", "Geo"} :
        /\ Handle("createCourse", g, <<name>>, CreateCourse(db, g, name, "#111"))
        /\ Within(db')

CoDeleteCourse ==
    \E g \in TenantIds, c \in CourseIds :
        Handle("deleteCourse", g, <<c>>, DeleteCourse(db, g, c))

NextCourses ==
    \/ CoCreateCourse
    \/ CoDeleteCourse

SpecCourses == InitCourses /\ [][NextCourses]_vars

\* C17: an accepted createCourse in graph g returns courseId 1 when g has no
\* course and otherwise the highest courseId of the courses g holds at that
\* moment plus 1, and stores the course under that id; the courses of the
\* other graphs play no part and are left alone, so the creates of a new graph
\* return 1, 2, ...
C17_NextCourseId ==
    [][(resp'.op = "createCourse" /\ resp'.g \in Stored(db)) =>
          LET g == resp'.g
              ids == {c.course_id : c \in db.courses[g]}
              expected == IF ids = {} THEN 1
                          ELSE 1 + CHOOSE m \in ids : \A k \in ids : k <= m
          IN /\ resp'.code = "OK"
             /\ resp'.data = <<expected>>
             /\ {c.course_id : c \in db'.courses[g]} = ids \cup {expected}
             /\ db.courses[g] \subseteq db'.courses[g]
             /\ \A h \in GraphIds \ {g} : db'.courses[h] = db.courses[h]]_vars

\* the first createCourse of the second graph returned 1 while the first
\* graph holds courses 1 and 2
C17_Witness ==
    /\ resp.op = "createCourse"
    /\ resp.g = FirstGraphId + 1
    /\ resp.data = <<1>>
    /\ {c.course_id : c \in db.courses[FirstGraphId]} = {1, 2}
    /\ {c.course_id : c \in db.courses[FirstGraphId + 1]} = {1}

\* C18: a courseId is not reused within a graph: the createCourse that follows
\* an accepted deleteCourse in the same graph does not return the courseId of
\* the course that was just deleted.
C18_NoReuse ==
    [][(/\ resp.op = "deleteCourse"
        /\ resp.code = "OK"
        /\ resp'.op = "createCourse"
        /\ resp'.code = "OK"
        /\ resp'.g = resp.g)
          => resp'.data[1] # resp.arg[1]]_vars

\* ---------------------------------------------------------------------------
\* deleteGraph, checked under Spec
\* ---------------------------------------------------------------------------
\* C20: deleteGraph on a stored graph that is neither readonly nor the default
\* graph is accepted and removes, in that one step, the graph and every course,
\* topic and edge it owns: afterwards getGraph answers GRAPH_NOT_FOUND and no
\* row with that graph id is left.
C20_DeleteGraph ==
    [][(/\ resp'.op = "deleteGraph"
        /\ resp'.g \in Stored(db)
        /\ db.graphs[resp'.g][1].is_readonly = 0
        /\ db.graphs[resp'.g][1].is_default = 0)
          => /\ resp'.code = "OK"
             /\ resp'.g \notin Stored(db')
             /\ get_graph_or_404(db', resp'.g) = "GRAPH_NOT_FOUND"
             /\ Content(db', resp'.g) = Content(EmptyDb, resp'.g)]_vars

\* C21: sourceGraphId is a weak reference: deleteGraph on a stored graph that
\* is neither readonly nor the default graph, and that other graphs were
\* copied from, is accepted and removes the graph, and every copy keeps its
\* courses, topics and edges.
C21_WeakSourceReference ==
    [][(/\ resp'.op = "deleteGraph"
        /\ resp'.g \in Stored(db)
        /\ db.graphs[resp'.g][1].is_readonly = 0
        /\ db.graphs[resp'.g][1].is_default = 0
        /\ \E h \in Stored(db) : db.graphs[h][1].source_graph_id = resp'.g)
          => /\ resp'.code = "OK"
             /\ resp'.g \notin Stored(db')
             /\ \A h \in Stored(db) \ {resp'.g} :
                    h \in Stored(db') /\ Content(db', h) = Content(db, h)]_vars

\* ---------------------------------------------------------------------------
\* SpecCourseDelete: courses created and deleted in a writable copy of the
\* imported default graph, whose topics carry courseIds and are linked by an edge
\* ---------------------------------------------------------------------------
CdCreateCourse ==
    \E name \in {"Alg ", "Geo"} :
        /\ Handle("createCourse", FirstGraphId, <<name>>,
                  CreateCourse(db, FirstGraphId, name, "#111"))
        /\ Within(db')

CdDeleteCourse ==
    \E c \in CourseIds :
        Handle("deleteCourse", FirstGraphId, <<c>>, DeleteCourse(db, FirstGraphId, c))

CdCreateTopic ==
    \E c \in CourseIds :
        Handle("createTopic", FirstGraphId, TopicArg(TopicSlug, c, Null, Null),
               CreateTopic(db, FirstGraphId, TopicSlug, "T", c, Null, Null))

CdDeleteTopic ==
    \E s \in {TopicSlug, SlugB} :
        Handle("deleteTopic", FirstGraphId, TopicArg(s, NoCourseId, Null, Null),
               DeleteTopic(db, FirstGraphId, s))

NextCourseDelete ==
    \/ CdCreateCourse
    \/ CdDeleteCourse
    \/ CdCreateTopic
    \/ CdDeleteTopic

SpecCourseDelete == InitBatch /\ [][NextCourseDelete]_vars

\* C22: an accepted deleteCourse removes the course and nothing else: every
\* topic of the graph, those whose courseId names the deleted course included,
\* every edge and every graph record stay stored as they were, and so do the
\* other courses.
C22_DeleteCourseOnly ==
    [][(resp'.op = "deleteCourse" /\ resp'.code = "OK") =>
          LET g == resp'.g
              c == resp'.arg[1]
          IN /\ \E x \in db.courses[g] : x.course_id = c
             /\ db'.courses[g] = {x \in db.courses[g] : x.course_id # c}
             /\ \A h \in GraphIds \ {g} : db'.courses[h] = db.courses[h]
             /\ db'.topics = db.topics
             /\ db'.edges = db.edges
             /\ db'.graphs = db.graphs]_vars

\* a deleteCourse was accepted and the graph still holds a topic that carries
\* the deleted courseId, and an edge
C22_Witness ==
    /\ resp.op = "deleteCourse"
    /\ resp.code = "OK"
    /\ \A x \in db.courses[resp.g] : x.course_id # resp.arg[1]
    /\ \E i \in 1..Len(db.topics[resp.g]) :
           db.topics[resp.g][i].course_id = resp.arg[1]
    /\ db.edges[resp.g] # <<>>

\* ---------------------------------------------------------------------------
\* SpecBootstrap: the registry of graphs with restarts of the server; at a
\* restart the scraper database may be there or not
\* ---------------------------------------------------------------------------
\* SQLiteAdapter.initialize on the database file of an earlier run
BsInitialize ==
    \E seed \in Seeds :
        /\ db' = _init_default_graph(db, seed)
        /\ resp' = Answer("initialize", DefaultGraphId, "OK", <<seed.present>>, <<>>)
        /\ UNCHANGED <<issued, calls>>

NextBootstrap ==
    \/ BsInitialize
    \/ RegCreateGraph
    \/ RegUpdateGraph
    \/ RegDeleteGraph
    \/ RegCreateTopic
    \/ RegDeleteTopic

SpecBootstrap == Init /\ [][NextBootstrap]_vars

\* C23: initialize on a database that holds a default graph creates no graph
\* and imports nothing: it leaves every table as it was. With that, after any
\* number of initialize calls and requests exactly one graph is the default
\* graph, it is readonly and its record, courses, topics and edges are those
\* of the first bootstrap.
C23_BootstrapIdempotent ==
    [][/\ resp'.op = "initialize" => db' = db
       /\ db'.graphs[DefaultGraphId] = db.graphs[DefaultGraphId]
       /\ Content(db', DefaultGraphId) = Content(db, DefaultGraphId)
       /\ {g \in Stored(db') : db'.graphs[g][1].is_default = 1} = {DefaultGraphId}
       /\ db'.graphs[DefaultGraphId][1].is_readonly = 1]_vars

\* initialize ran again with a scraper database in place, on a database whose
\* first bootstrap found none and that holds two more graphs: the default
\* graph is still empty
C23_Witness ==
    /\ resp.op = "initialize"
    /\ resp.arg = <<TRUE>>
    /\ db.topics[DefaultGraphId] = <<>>
    /\ db.graphs[DefaultGraphId][1].description = "Default knowledge graph"
    /\ Cardinality(Stored(db)) = 3

\* ---------------------------------------------------------------------------
\* The list reads and getFullGraphData
\* ---------------------------------------------------------------------------
\* the displayName values of the model, as ORDER BY display_name ranks them
DisplayNames == <<"B", "E", "T", "U">>

NameRank(n) == CHOOSE i \in 1..Len(DisplayNames) : DisplayNames[i] = n

\* ORDER BY over rows with the integer keys keys: the row numbers by rising
\* key, rows with equal keys in rowid order
OrderBy(keys) ==
    LET Pos(i) == 1 + Cardinality({j \in 1..Len(keys) :
                        keys[j] < keys[i] \/ (keys[j] = keys[i] /\ j < i)})
    IN [k \in 1..Len(keys) |-> CHOOSE i \in 1..Len(keys) : Pos(i) = k]

_row_to_graph(graph_id, row) ==
    [id |-> graph_id, name |-> row.name, description |-> row.description,
     isDefault |-> row.is_default = 1, isReadonly |-> row.is_readonly = 1,
     sourceGraphId |-> row.source_graph_id]

_row_to_course(graph_id, row) ==
    [graphId |-> graph_id, courseId |-> row.course_id, name |-> row.name,
     color |-> row.color]

_row_to_topic(graph_id, row) ==
    [graphId |-> graph_id, urlSlug |-> row.url_slug, displayName |-> row.display_name,
     courseId |-> row.course_id, parentSlugs |-> JsonLoads(row.parent_slugs),
     contentHtml |-> row.content_html, contentText |-> row.content_text,
     hasContent |-> row.has_content # 0]

_row_to_edge(graph_id, row) ==
    [graphId |-> graph_id, parentSlug |-> row.parent_slug, childSlug |-> row.child_slug]

\* SELECT * FROM kg_courses WHERE graph_id = ? ORDER BY course_id
CourseRows(d, graph_id) ==
    LET ids == {c.course_id : c \in d.courses[graph_id]}
        Nth(k) == CHOOSE c \in d.courses[graph_id] :
                      Cardinality({i \in ids : i <= c.course_id}) = k
    IN [k \in 1..Cardinality(ids) |-> Nth(k)]

\* SELECT * FROM kg_topics WHERE graph_id = ? ORDER BY display_name
TopicRows(d, graph_id) ==
    LET rows == d.topics[graph_id]
        order == OrderBy([i \in 1..Len(rows) |-> NameRank(rows[i].display_name)])
    IN [k \in 1..Len(rows) |-> rows[order[k]]]

list_courses(d, graph_id) ==
    [k \in 1..Len(CourseRows(d, graph_id)) |->
        _row_to_course(graph_id, CourseRows(d, graph_id)[k])]

list_topics(d, graph_id) ==
    [k \in 1..Len(TopicRows(d, graph_id)) |->
        _row_to_topic(graph_id, TopicRows(d, graph_id)[k])]

\* SELECT * FROM kg_edges WHERE graph_id = ? ORDER BY id
list_edges(d, graph_id) ==
    [k \in 1..Len(d.edges[graph_id]) |-> _row_to_edge(graph_id, d.edges[graph_id][k])]

\* get_full_graph_data handing out contentHtml as it is stored
get_full_graph_data_with_html(d, graph_id) ==
    [graph |-> _row_to_graph(graph_id, get_graph(d, graph_id)[1]),
     courses |-> [k \in 1..Len(CourseRows(d, graph_id)) |->
                    [courseId |-> CourseRows(d, graph_id)[k].course_id,
                     name |-> CourseRows(d, graph_id)[k].name,
                     color |-> CourseRows(d, graph_id)[k].color]],
     topics |-> [k \in 1..Len(TopicRows(d, graph_id)) |->
                    LET row == TopicRows(d, graph_id)[k]
                    IN [urlSlug |-> row.url_slug, displayName |-> row.display_name,
                        courseId |-> row.course_id,
                        parentSlugs |-> JsonLoads(row.parent_slugs),
                        contentHtml |-> row.content_html,
                        contentText |-> row.content_text,
                        hasContent |-> row.has_content # 0]],
     edges |-> [k \in 1..Len(d.edges[graph_id]) |->
                    [parentSlug |-> d.edges[graph_id][k].parent_slug,
                     childSlug |-> d.edges[graph_id][k].child_slug]]]

get_full_graph_data(d, graph_id) ==
    [graph |-> _row_to_graph(graph_id, get_graph(d, graph_id)[1]),
     courses |-> [k \in 1..Len(CourseRows(d, graph_id)) |->
                    [courseId |-> CourseRows(d, graph_id)[k].course_id,
                     name |-> CourseRows(d, graph_id)[k].name,
                     color |-> CourseRows(d, graph_id)[k].color]],
     topics |-> [k \in 1..Len(TopicRows(d, graph_id)) |->
                    LET row == TopicRows(d, graph_id)[k]
                    IN [urlSlug |-> row.url_slug, displayName |-> row.display_name,
                        courseId |-> row.course_id,
                        parentSlugs |-> JsonLoads(row.parent_slugs),
                        contentHtml |-> Null,
                        contentText |-> row.content_text,
                        hasContent |-> row.has_content # 0]],
     edges |-> [k \in 1..Len(d.edges[graph_id]) |->
                    [parentSlug |-> d.edges[graph_id][k].parent_slug,
                     childSlug |-> d.edges[graph_id][k].child_slug]]]

\* GET /graphs/{graphId}
GetGraph(d, g) ==
    IF get_graph_or_404(d, g) # "OK" THEN Rejected(d, get_graph_or_404(d, g))
    ELSE [db |-> d, code |-> "OK", data |-> _row_to_graph(g, get_graph(d, g)[1])]

\* GET /graphs/{graphId}/courses
ListCourses(d, g) ==
    IF get_graph_or_404(d, g) # "OK" THEN Rejected(d, get_graph_or_404(d, g))
    ELSE [db |-> d, code |-> "OK", data |-> list_courses(d, g)]

\* GET /graphs/{graphId}/topics
ListTopics(d, g) ==
    IF get_graph_or_404(d, g) # "OK" THEN Rejected(d, get_graph_or_404(d, g))
    ELSE [db |-> d, code |-> "OK", data |-> list_topics(d, g)]

\* GET /graphs/{graphId}/edges
ListEdges(d, g) ==
    IF get_graph_or_404(d, g) # "OK" THEN Rejected(d, get_graph_or_404(d, g))
    ELSE [db |-> d, code |-> "OK", data |-> list_edges(d, g)]

\* GET /graphs/{graphId}/data
GetFullGraphData(d, g) ==
    IF get_graph_or_404(d, g) # "OK" THEN Rejected(d, get_graph_or_404(d, g))
    ELSE [db |-> d, code |-> "OK", data |-> get_full_graph_data(d, g)]

\* ---------------------------------------------------------------------------
\* SpecFullData: getFullGraphData between course and topic requests
\* ---------------------------------------------------------------------------
FdGetFullGraphData ==
    \E g \in GraphIds : Handle("getFullGraphData", g, <<>>, GetFullGraphData(db, g))

NextFullData ==
    \/ CdCreateCourse
    \/ CdDeleteCourse
    \/ CdCreateTopic
    \/ CdDeleteTopic
    \/ FdGetFullGraphData

SpecFullData == InitBatch /\ [][NextFullData]_vars

\* a record without its graphId field
WithoutGraphId(r) == [f \in DOMAIN r \ {"graphId"} |-> r[f]]

\* C24: getFullGraphData(g) on a stored graph returns the graph record that
\* getGraph returns and the courses, topics and edges that listCourses,
\* listTopics and listEdges return, in their order, each without its graphId
\* field and each topic with contentHtml null whatever is stored; it changes
\* no state. For a graph that is not stored it answers GRAPH_NOT_FOUND.
C24_FullGraphData ==
    [][resp'.op = "getFullGraphData" =>
          LET g == resp'.g
              Listed(l) == [k \in 1..Len(l) |-> WithoutGraphId(l[k])]
              NoHtml(l) == [k \in 1..Len(l) |-> [l[k] EXCEPT !.contentHtml = Null]]
          IN /\ db' = db
             /\ IF g \notin Stored(db) THEN resp'.code = "GRAPH_NOT_FOUND"
                ELSE /\ resp'.code = "OK"
                     /\ resp'.data.graph = GetGraph(db, g).data
                     /\ resp'.data.courses = Listed(ListCourses(db, g).data)
                     /\ resp'.data.topics = NoHtml(Listed(ListTopics(db, g).data))
                     /\ resp'.data.edges = Listed(ListEdges(db, g).data)
                     /\ \A k \in 1..Len(resp'.data.topics) :
                            /\ resp'.data.topics[k].contentHtml = Null
                            /\ "graphId" \notin DOMAIN resp'.data.topics[k]
                     /\ \A k \in 1..Len(resp'.data.courses) :
                            "graphId" \notin DOMAIN resp'.data.courses[k]
                     /\ \A k \in 1..Len(resp'.data.edges) :
                            "graphId" \notin DOMAIN resp'.data.edges[k]]_vars

\* getFullGraphData answered for a graph that stores a topic with contentHtml,
\* a topic created by a request, an edge and two courses
C24_Witness ==
    /\ resp.op = "getFullGraphData"
    /\ resp.code = "OK"
    /\ Len(resp.data.topics) = 3
    /\ Len(resp.data.edges) = 1
    /\ Len(resp.data.courses) = 2
    /\ \E i \in 1..Len(db.topics[resp.g]) : db.topics[resp.g][i].content_html = "<p>"

\* ---------------------------------------------------------------------------
\* The bodies of the answers
\* ---------------------------------------------------------------------------
\* return {"success": True, "data": data}
success_response(data) == [success |-> TRUE, data |-> data]

\* the body of the answer r of a handler: success_response for a return; for
\* raise HTTPException(detail={"code": ..., "message": ...}) the application
\* registers no exception handler, so the framework's own one answers with
\* {"detail": detail}; an exception that is no HTTPException is answered with
\* the plain text of status 500
ResponseBody(r) ==
    IF r.code = "OK" THEN success_response(r.data)
    ELSE IF r.code = "INTERNAL_ERROR" THEN [text |-> "Internal Server Error"]
    ELSE [detail |-> [code |-> r.code, message |-> "message"]]

\* the codes of the error taxonomy
ErrorCodes ==
    {"VALIDATION_ERROR", "GRAPH_NOT_FOUND", "COURSE_NOT_FOUND", "TOPIC_NOT_FOUND",
     "EDGE_NOT_FOUND", "DUPLICATE_ENTRY", "READONLY_GRAPH", "CANNOT_DELETE_DEFAULT"}

\* C25: the body of every answer of a graphs API operation is the envelope
\* {success: true, data: payload} for a success and the envelope
\* {success: false, error: {code, message}} with a code of the error taxonomy
\* for an error.
C25_Envelope ==
    resp.op # "initialize" =>
        \A body \in {ResponseBody(resp)} :
            IF resp.code = "OK"
            THEN body = [success |-> TRUE, data |-> resp.data]
            ELSE /\ DOMAIN body = {"success", "error"}
                 /\ body.success = FALSE
                 /\ {"code", "message"} \subseteq DOMAIN body.error
                 /\ body.error.code \in ErrorCodes

\* ---------------------------------------------------------------------------
\* SpecDeleteSteps: delete_topic one storage call at a time. The adapter has
\* one connection, so a read that runs while delete_topic is suspended at an
\* await sees the rows as the statements executed so far have left them
\* ---------------------------------------------------------------------------
\* an adapter call suspended before the statement pc, with the rows it holds
Call(op, g, arg, pc, rows) ==
    [op |-> op, g |-> g, arg |-> arg, pc |-> pc, rows |-> rows]

\* the copy of a call that has moved on to pc with rows
Resume(c, pc, rows) == (calls \ {c}) \cup {[c EXCEPT !.pc = pc, !.rows = rows]}

DsCreateTopic ==
    /\ calls = NoCalls
    /\ \E s \in Slugs :
           Step("createTopic", FirstGraphId, <<s>>,
                CreateTopic(db, FirstGraphId, s, "T", 1, Null, Null))

DsCreateEdge ==
    /\ calls = NoCalls
    /\ \E p \in Slugs, c \in Slugs :
           /\ Step("createEdge", FirstGraphId, <<p, c>>, CreateEdge(db, FirstGraphId, p, c))
           /\ Within(db')

\* the DELETE route of a topic up to its await of db.delete_topic
DsDeleteTopic ==
    /\ calls = NoCalls
    /\ \E s \in Slugs :
           /\ require_writable(db, FirstGraphId) = "OK"
           /\ get_topic(db, FirstGraphId, s) # None
           /\ calls' = {Call("deleteTopic", FirstGraphId, <<s>>, "delete_edges", <<>>)}
           /\ UNCHANGED <<db, issued, resp>>

\* DELETE FROM kg_edges WHERE graph_id = ? AND (parent_slug = ? OR child_slug = ?)
DsDeleteEdges ==
    \E c \in calls :
        LET TouchesNot(e) == e.parent_slug # c.arg[1] /\ e.child_slug # c.arg[1]
        IN /\ c.op = "deleteTopic" /\ c.pc = "delete_edges"
           /\ db' = [db EXCEPT !.edges[c.g] = SelectSeq(@, TouchesNot)]
           /\ calls' = Resume(c, "select", <<>>)
           /\ UNCHANGED <<issued, resp>>

\* SELECT url_slug, parent_slugs ... WHERE parent_slugs LIKE ?, and fetchall
DsSelect ==
    \E c \in calls :
        LET Like(row) == LikeMatch(row.parent_slugs, LikePattern(c.arg[1]))
        IN /\ c.op = "deleteTopic" /\ c.pc = "select"
           /\ calls' = Resume(c, "update", SelectSeq(db.topics[c.g], Like))
           /\ UNCHANGED <<db, issued, resp>>

\* one turn of the loop over the fetched rows: the UPDATE writes the list that
\* was fetched, without the slug
DsUpdate ==
    \E c \in calls :
        /\ c.op = "deleteTopic" /\ c.pc = "update" /\ c.rows # <<>>
        /\ \A row \in {Head(c.rows)} :
               db' = IF InList(c.arg[1], JsonLoads(row.parent_slugs))
                     THEN [db EXCEPT !.topics[c.g] =
                             SetParentSlugs(@, row.url_slug,
                                 ListRemove(JsonLoads(row.parent_slugs), c.arg[1]))]
                     ELSE db
        /\ calls' = Resume(c, "update", Tail(c.rows))
        /\ UNCHANGED <<issued, resp>>

\* DELETE FROM kg_topics WHERE graph_id = ? AND url_slug = ?
DsDeleteRow ==
    \E c \in calls :
        LET Other(row) == row.url_slug # c.arg[1]
        IN /\ c.op = "deleteTopic" /\ c.pc = "update" /\ c.rows = <<>>
           /\ db' = [db EXCEPT !.topics[c.g] = SelectSeq(@, Other)]
           /\ calls' = Resume(c, "commit", <<>>)
           /\ UNCHANGED <<issued, resp>>

\* commit, and the route answers
DsCommit ==
    \E c \in calls :
        /\ c.op = "deleteTopic" /\ c.pc = "commit"
        /\ calls' = calls \ {c}
        /\ resp' = Answer("deleteTopic", c.g, "OK", c.arg, <<>>)
        /\ UNCHANGED <<db, issued>>

\* a read that is served at any await of the call
DsRead ==
    /\ db' = db
    /\ resp' = Answer("getFullGraphData", FirstGraphId, "OK", <<>>,
                      GetFullGraphData(db, FirstGraphId).data)
    /\ UNCHANGED <<issued, calls>>

NextDeleteSteps ==
    \/ DsCreateTopic
    \/ DsCreateEdge
    \/ DsDeleteTopic
    \/ DsDeleteEdges
    \/ DsSelect
    \/ DsUpdate
    \/ DsDeleteRow
    \/ DsCommit
    \/ DsRead

SpecDeleteSteps == InitEdges /\ [][NextDeleteSteps]_vars

\* C26: while delete_topic(g, s) is under way, whenever the row of s is gone
\* from kg_topics no edge of g has s as parent or child and no parentSlugs of
\* g names s: the edges and the back-references go before the topic row
C26_NoDanglingWhileDeleting ==
    \A c \in calls :
        (c.op = "deleteTopic" /\ get_topic(db, c.g, c.arg[1]) = None) =>
            /\ \A i \in 1..Len(db.edges[c.g]) :
                   /\ db.edges[c.g][i].parent_slug # c.arg[1]
                   /\ db.edges[c.g][i].child_slug # c.arg[1]
            /\ \A i \in 1..Len(db.topics[c.g]) :
                   ~InList(c.arg[1], parentSlugs(db.topics[c.g][i]))

\* ---------------------------------------------------------------------------
\* SpecPrerequisites: edges are created and deleted in a writable graph and
\* the prerequisites of its topics are read
\* ---------------------------------------------------------------------------
PqCreateTopic ==
    \E s \in Slugs :
        Step("createTopic", FirstGraphId, <<s>>,
             CreateTopic(db, FirstGraphId, s, "T", 1, Null, Null))

PqCreateEdge ==
    \E p \in Slugs, c \in Slugs :
        /\ Step("createEdge", FirstGraphId, <<p, c>>, CreateEdge(db, FirstGraphId, p, c))
        /\ Within(db')

PqDeleteEdge ==
    \E p \in Slugs, c \in Slugs :
        Step("deleteEdge", FirstGraphId, <<p, c>>, DeleteEdge(db, FirstGraphId, p, c))

PqGetTopicPrerequisites ==
    \E s \in Slugs :
        Handle("getTopicPrerequisites", FirstGraphId, <<s>>,
               GetTopicPrerequisites(db, FirstGraphId, s))

NextPrerequisites ==
    \/ PqCreateTopic
    \/ PqCreateEdge
    \/ PqDeleteEdge
    \/ PqGetTopicPrerequisites

SpecPrerequisites == InitEdges /\ [][NextPrerequisites]_vars

\* the parentSlugs of a topic row that name a stored topic of graph g
StoredParents(d, g, row) ==
    LET IsStored(s) == get_topic(d, g, s) # None
    IN SelectSeq(parentSlugs(row), IsStored)

\* C27: an accepted getTopicPrerequisites(g, s) returns the stored topics that
\* s's parentSlugs names, one record per slug, in the order of parentSlugs
C27_PrerequisiteOrder ==
    [][(resp'.op = "getTopicPrerequisites" /\ resp'.code = "OK") =>
          \A row \in {get_topic(db, resp'.g, resp'.arg[1])[1]} :
              [i \in 1..Len(resp'.data) |-> resp'.data[i].url_slug]
                  = StoredParents(db, resp'.g, row)]_vars

\* ---------------------------------------------------------------------------
\* SpecParentOrder: edges into one topic of a writable graph are created and
\* deleted; no bound on the edges is needed, UNIQUE(graph_id, parent_slug,
\* child_slug) keeps them finite
\* ---------------------------------------------------------------------------
OrderChild == SlugB

OrderParents == {SlugA, SlugC, SlugE}

PoCreateTopic ==
    \E s \in OrderParents :
        Step("createTopic", FirstGraphId, <<s>>,
             CreateTopic(db, FirstGraphId, s, "T", 1, Null, Null))

PoCreateEdge ==
    \E p \in OrderParents :
        Step("createEdge", FirstGraphId, <<p, OrderChild>>,
             CreateEdge(db, FirstGraphId, p, OrderChild))

PoDeleteEdge ==
    \E p \in OrderParents :
        Step("deleteEdge", FirstGraphId, <<p, OrderChild>>,
             DeleteEdge(db, FirstGraphId, p, OrderChild))

NextParentOrder ==
    \/ PoCreateTopic
    \/ PoCreateEdge
    \/ PoDeleteEdge

SpecParentOrder == InitBatch /\ [][NextParentOrder]_vars

\* the parents of the stored edges of g into child, in the order of their rows
ParentsByEdge(d, g, child) ==
    LET Into(e) == e.child_slug = child
        rows == SelectSeq(d.edges[g], Into)
    IN [i \in 1..Len(rows) |-> rows[i].parent_slug]

\* C28: an accepted createEdge(p, c) puts p at the end of c's parentSlugs, an
\* accepted deleteEdge(p, c) takes p alone out of it and keeps the order of
\* the rest, and after every request c's parentSlugs is the list of the
\* parents of the stored edges into c in the order of their creation
C28_ParentOrder ==
    [][\A g \in {resp'.g}, c \in {OrderChild} :
          \A old \in {parentSlugs(get_topic(db, g, c)[1])},
             new \in {parentSlugs(get_topic(db', g, c)[1])} :
              /\ (resp'.op = "createEdge" /\ resp'.code = "OK") =>
                     new = Append(old, resp'.arg[1])
              /\ (resp'.op = "deleteEdge" /\ resp'.code = "OK") =>
                     /\ InList(resp'.arg[1], old)
                     /\ Len(new) = Len(old) - 1
                     /\ new = SelectSeq(old, LAMBDA s : s # resp'.arg[1])
              /\ new = ParentsByEdge(db', g, c)]_vars

C28_Witness ==
    /\ resp.op = "deleteEdge" /\ resp.code = "OK" /\ resp.arg = <<SlugE, OrderChild>>
    /\ parentSlugs(get_topic(db, FirstGraphId, OrderChild)[1]) = <<SlugC, SlugA>>

\* ---------------------------------------------------------------------------
\* SpecConcurrentEdges: up to MaxCalls createEdge requests with different
\* parents and the same child run on the one connection, each suspended at
\* the awaits of SQLiteAdapter.create_edge. The reads the route does before
\* its await of db.create_edge are taken in one step
\* ---------------------------------------------------------------------------
MaxCalls == 2

\* the checks of the POST edges route, "OK" when it goes on to db.create_edge
CreateEdgeChecks(d, g, parent_slug, child_slug) ==
    IF require_writable(d, g) # "OK" THEN require_writable(d, g)
    ELSE IF parent_slug = child_slug THEN "VALIDATION_ERROR"
    ELSE IF get_topic(d, g, parent_slug) = None THEN "TOPIC_NOT_FOUND"
    ELSE IF get_topic(d, g, child_slug) = None THEN "TOPIC_NOT_FOUND"
    ELSE IF get_edge(d, g, parent_slug, child_slug) # None THEN "DUPLICATE_ENTRY"
    ELSE "OK"

CcCreateTopic ==
    /\ calls = NoCalls
    /\ \E s \in OrderParents :
           Step("createTopic", FirstGraphId, <<s>>,
                CreateTopic(db, FirstGraphId, s, "T", 1, Null, Null))

\* a request arrives while fewer than MaxCalls are under way, none of them
\* for the same parent
CcCreateEdge ==
    \E p \in OrderParents :
        /\ Cardinality(calls) < MaxCalls
        /\ \A c \in calls : c.arg[1] # p
        /\ \A code \in {CreateEdgeChecks(db, FirstGraphId, p, OrderChild)} :
               IF code = "OK"
               THEN /\ calls' = calls \cup
                          {Call("createEdge", FirstGraphId, <<p, OrderChild>>, "insert", None)}
                    /\ UNCHANGED <<db, issued, resp>>
               ELSE Step("createEdge", FirstGraphId, <<p, OrderChild>>, Rejected(db, code))

\* INSERT INTO kg_edges; UNIQUE(graph_id, parent_slug, child_slug) raises
CcInsert ==
    \E c \in calls :
        /\ c.op = "createEdge" /\ c.pc = "insert"
        /\ IF get_edge(db, c.g, c.arg[1], c.arg[2]) # None
           THEN /\ calls' = calls \ {c}
                /\ resp' = Answer("createEdge", c.g, "INTERNAL_ERROR", <<>>, <<>>)
                /\ UNCHANGED <<db, issued>>
           ELSE /\ db' = [db EXCEPT !.edges[c.g] = Append(@,
                             [parent_slug |-> c.arg[1], child_slug |-> c.arg[2]])]
                /\ calls' = Resume(c, "select", None)
                /\ UNCHANGED <<issued, resp>>

\* SELECT parent_slugs FROM kg_topics ..., fetchone
CcSelect ==
    \E c \in calls :
        /\ c.op = "createEdge" /\ c.pc = "select"
        /\ calls' = Resume(c, "update",
                           IF get_topic(db, c.g, c.arg[2]) = None THEN None
                           ELSE Some(get_topic(db, c.g, c.arg[2])[1].parent_slugs))
        /\ UNCHANGED <<db, issued, resp>>

\* the UPDATE writes the list that was fetched with the parent appended
CcUpdate ==
    \E c \in calls :
        /\ c.op = "createEdge" /\ c.pc = "update"
        /\ db' = IF c.rows # None /\ ~InList(c.arg[1], JsonLoads(c.rows[1]))
                 THEN [db EXCEPT !.topics[c.g] =
                         SetParentSlugs(@, c.arg[2], Append(JsonLoads(c.rows[1]), c.arg[1]))]
                 ELSE db
        /\ calls' = Resume(c, "commit", None)
        /\ UNCHANGED <<issued, resp>>

CcCommit ==
    \E c \in calls :
        /\ c.op = "createEdge" /\ c.pc = "commit"
        /\ calls' = Resume(c, "get_edge", None)
        /\ UNCHANGED <<db, issued, resp>>

\* return await self.get_edge(...), and the route answers
CcReturn ==
    \E c \in calls :
        /\ c.op = "createEdge" /\ c.pc = "get_edge"
        /\ calls' = calls \ {c}
        /\ resp' = Answer("createEdge", c.g, "OK", c.arg,
                          get_edge(db, c.g, c.arg[1], c.arg[2]))
        /\ UNCHANGED <<db, issued>>

NextConcurrentEdges ==
    \/ CcCreateTopic
    \/ CcCreateEdge
    \/ CcInsert
    \/ CcSelect
    \/ CcUpdate
    \/ CcCommit
    \/ CcReturn

SpecConcurrentEdges == InitBatch /\ [][NextConcurrentEdges]_vars

\* C29: once every createEdge request into the child has completed, the
\* child's parentSlugs names exactly the parents of the stored edges into it
C29_NoLostParent ==
    calls = NoCalls =>
        \A row \in {get_topic(db, FirstGraphId, OrderChild)[1]} :
            {parentSlugs(row)[i] : i \in 1..Len(parentSlugs(row))}
                = {e.parent_slug : e \in {db.edges[FirstGraphId][i] :
                                             i \in 1..Len(db.edges[FirstGraphId])}}

\* ---------------------------------------------------------------------------
\* SpecRejections: every single-item mutating request, addressed to the
\* default graph, to writable graphs with and without content and to ids that
\* are not stored
\* ---------------------------------------------------------------------------
\* POST /graphs with and without a name, as a new empty graph or as the copy
\* of a graph that is not stored
RjCreateGraph ==
    \E name \in {"", "G"}, copy \in {NoGraphId, MaxGraphs} :
        \A r \in {CreateGraph(db, issued + 1, name, Null, copy)} :
            /\ issued < MaxGraphs
            /\ db' = r.db
            /\ issued' = IF r.code = "OK" THEN issued + 1 ELSE issued
            /\ resp' = Answer("createGraph",
                              IF r.code = "OK" THEN issued + 1 ELSE NoGraphId,
                              r.code, <<copy, name>>, r.data)
            /\ UNCHANGED calls

\* the default graph, the writable copy and the id of the graph RjCreateGraph
\* adds
RjTargets == {DefaultGraphId, FirstGraphId, FirstGraphId + 1}

\* the course requests go to the default graph and to the added graph
RjCourseTargets == {DefaultGraphId, FirstGraphId + 1}

RjCreateEdge ==
    \E g \in RjTargets, p \in EdgeSlugs, c \in EdgeSlugs :
        /\ Step("createEdge", g, <<p, c>>, CreateEdge(db, g, p, c))
        /\ Within(db')

NextRejections ==
    \/ RjCreateGraph
    \/ ReqUpdateGraph(RjTargets)
    \/ ReqDeleteGraph(RjTargets)
    \/ ReqCreateCourse(RjCourseTargets)
    \/ ReqUpdateCourse(RjCourseTargets)
    \/ ReqDeleteCourse(RjCourseTargets)
    \/ ReqCreateTopic(RjTargets)
    \/ ReqUpdateTopic(RjTargets)
    \/ ReqDeleteTopic(RjTargets)
    \/ RjCreateEdge
    \/ ReqDeleteEdge(RjTargets)

SpecRejections == InitBatch /\ [][NextRejections]_vars

\* the requests that carry one item
SingleItemOps == (MutatingOps \ {"batch"}) \cup {"createGraph"}

\* C30: a single-item request that is answered with one of the error codes
\* leaves the graph records, the courses, the topics and the edges of every
\* graph as they were
C30_RejectionsWriteNothing ==
    [][(resp'.op \in SingleItemOps /\ resp'.code \in ErrorCodes) => db' = db]_vars

\* a request for a topic that exists was refused in a graph that holds edges
C30_Witness ==
    /\ resp.op = "createTopic"
    /\ resp.code = "DUPLICATE_ENTRY"
    /\ db.edges[resp.g] # <<>>
    /\ ~get_graph(db, resp.g)[1].is_readonly = 1
====
